---- MODULE Spec2Model ----
(***************************************************************************)
(* RelatixDB: the in-memory graph core (internal/graph/memory.go), the     *)
(* query engine (findPaths), the BoltDB backend (internal/storage/bolt.go) *)
(* and the write-through wrapper (internal/storage/persistent_graph.go).   *)
(***************************************************************************)
EXTENDS Integers, Sequences, FiniteSets, TLC

(***************************************************************************)
(* Bounds and input domains                                                *)
(***************************************************************************)
NodeIds == {"a", "b"}
IdInputs == NodeIds \cup {""}
Types == {"", "t"}
Labels == {"l", "m"}
LabelInputs == Labels \cup {""}
MaxEdges == 2

(***************************************************************************)
(* Go maps as functions with a finite domain                               *)
(***************************************************************************)
EmptyMap == [x \in {} |-> x]
MapPut(f, k, v) == [x \in DOMAIN f \cup {k} |-> IF x = k THEN v ELSE f[x]]
MapDel(f, k) == [x \in DOMAIN f \ {k} |-> f[x]]
MapDelAll(f, ks) == [x \in DOMAIN f \ ks |-> f[x]]

\* map[string]string: isNil distinguishes the nil map from an empty one
NilProps == [isNil |-> TRUE, kv |-> EmptyMap]
NoProps == [isNil |-> FALSE, kv |-> EmptyMap]
SomeProps == [isNil |-> FALSE, kv |-> [name |-> "v"]]
PropsInputs == {NilProps, SomeProps}

Node(id, type, props) == [ID |-> id, Type |-> type, Props |-> props]
Edge(from, to, label, props) ==
    [From |-> from, To |-> to, Label |-> label, Props |-> props]

NodeInputs == {Node(id, t, p) : id \in IdInputs, t \in Types, p \in PropsInputs}
EdgeInputs ==
    {Edge(f, t, l, NilProps) : f \in IdInputs, t \in IdInputs, l \in LabelInputs}

\* The inputs of the calls on the PersistentGraph
PNodeInputs ==
    {Node(id, "t", SomeProps) : id \in IdInputs}
        \cup {Node(id, "", NilProps) : id \in IdInputs}
PLabelInputs == {"l", ""}
PEdgeInputs ==
    {Edge(f, t, l, NilProps) : f \in IdInputs, t \in IdInputs, l \in PLabelInputs}

(***************************************************************************)
(* MemoryGraph                                                             *)
(***************************************************************************)
NewMemoryGraph ==
    [nodes |-> EmptyMap, edges |-> EmptyMap, nodesByType |-> EmptyMap,
     outEdges |-> EmptyMap, inEdges |-> EmptyMap, closed |-> FALSE]

makeEdgeKey(from, to, label) == from \o ":" \o to \o ":" \o label

NodeValidate(n) == IF n.ID = "" THEN "ErrEmptyNodeID" ELSE "ok"

EdgeValidate(e) ==
    IF e.From = "" THEN "ErrEmptyFromNode"
    ELSE IF e.To = "" THEN "ErrEmptyToNode"
    ELSE IF e.Label = "" THEN "ErrEmptyEdgeLabel"
    ELSE "ok"

\* Each operation returns [g |-> the graph afterwards, err |-> its error]
Ret(g, err) == [g |-> g, err |-> err]

\* memory.go:52-66: the stores of AddNode, after its checks
AddNodeStore(g, node) ==
    LET nodeCopy == IF node.Props.isNil
                    THEN [node EXCEPT !.Props = NoProps] ELSE node
        bucket == IF node.Type \in DOMAIN g.nodesByType
                  THEN g.nodesByType[node.Type] ELSE EmptyMap
    IN [g EXCEPT !.nodes = MapPut(g.nodes, node.ID, nodeCopy),
                 !.nodesByType =
                    IF node.Type # ""
                    THEN MapPut(g.nodesByType, node.Type,
                                MapPut(bucket, node.ID, nodeCopy))
                    ELSE g.nodesByType]

MemAddNode(g, node) ==
    IF NodeValidate(node) # "ok" THEN Ret(g, NodeValidate(node))
    ELSE IF g.closed THEN Ret(g, "ErrGraphClosed")
    ELSE IF node.ID \in DOMAIN g.nodes THEN Ret(g, "ErrNodeExists")
    ELSE
      LET nodeCopy == IF node.Props.isNil
                      THEN [node EXCEPT !.Props = NoProps] ELSE node
          byType ==
            IF node.Type # ""
            THEN LET bucket == IF node.Type \in DOMAIN g.nodesByType
                               THEN g.nodesByType[node.Type] ELSE EmptyMap
                 IN MapPut(g.nodesByType, node.Type,
                           MapPut(bucket, node.ID, nodeCopy))
            ELSE g.nodesByType
      IN Ret([g EXCEPT !.nodes = MapPut(g.nodes, node.ID, nodeCopy),
                       !.nodesByType = byType], "ok")

MemGetNode(g, id) ==
    IF g.closed THEN [node |-> Node("", "", NilProps), err |-> "ErrGraphClosed"]
    ELSE IF id \notin DOMAIN g.nodes
         THEN [node |-> Node("", "", NilProps), err |-> "ErrNodeNotFound"]
    ELSE [node |-> g.nodes[id], err |-> "ok"]

\* A DeleteNode that drops the outgoing bucket but leaves its edges stored
DeleteNodeOutgoingIndexOnly(g, id) ==
    IF id \in DOMAIN g.outEdges
    THEN [g EXCEPT !.outEdges = MapDel(g.outEdges, id)]
    ELSE g

\* memory.go:104-110: the outgoing edges leave primary storage and the node's
\* own outEdges bucket; the peers' inEdges buckets are not touched.
DeleteNodeOutgoing(g, id) ==
    IF id \in DOMAIN g.outEdges
    THEN [g EXCEPT !.edges = MapDelAll(g.edges, DOMAIN g.outEdges[id]),
                   !.outEdges = MapDel(g.outEdges, id)]
    ELSE g

\* A DeleteNode that takes the incoming edges out of the indexes only
DeleteNodeIncomingIndexOnly(g, id) ==
    IF id \in DOMAIN g.inEdges
    THEN [g EXCEPT !.inEdges = MapDel(g.inEdges, id)]
    ELSE g

\* memory.go:112-123: the incoming edges leave primary storage and the
\* outEdges bucket of their source, when that bucket exists.
DeleteNodeIncoming(g, id) ==
    IF id \in DOMAIN g.inEdges
    THEN LET incoming == g.inEdges[id]
             FromOf(f) == {k \in DOMAIN incoming : incoming[k].From = f}
         IN [g EXCEPT !.edges = MapDelAll(g.edges, DOMAIN incoming),
                      !.outEdges = [f \in DOMAIN g.outEdges |->
                                      MapDelAll(g.outEdges[f], FromOf(f))],
                      !.inEdges = MapDel(g.inEdges, id)]
    ELSE g

\* A DeleteNode that leaves the type index alone
DeleteNodeTypeIndexSkip(g, node) == g

\* memory.go:125-133
DeleteNodeTypeIndex(g, node) ==
    IF node.Type # "" /\ node.Type \in DOMAIN g.nodesByType
    THEN LET typeNodes == MapDel(g.nodesByType[node.Type], node.ID)
         IN IF DOMAIN typeNodes = {}
            THEN [g EXCEPT !.nodesByType = MapDel(g.nodesByType, node.Type)]
            ELSE [g EXCEPT !.nodesByType[node.Type] = typeNodes]
    ELSE g

MemDeleteNode(g, id) ==
    IF g.closed THEN Ret(g, "ErrGraphClosed")
    ELSE IF id \notin DOMAIN g.nodes THEN Ret(g, "ErrNodeNotFound")
    ELSE
      LET node == g.nodes[id]
          g1 == DeleteNodeOutgoing(g, id)
          g2 == DeleteNodeIncoming(g1, id)
          g3 == DeleteNodeTypeIndex(g2, node)
      IN Ret([g3 EXCEPT !.nodes = MapDel(g3.nodes, id)], "ok")

\* memory.go:169-186: the stores of AddEdge, after its checks
AddEdgeStore(g, edge) ==
    LET edgeKey == makeEdgeKey(edge.From, edge.To, edge.Label)
        edgeCopy == IF edge.Props.isNil
                    THEN [edge EXCEPT !.Props = NoProps] ELSE edge
        outB == IF edge.From \in DOMAIN g.outEdges
                THEN g.outEdges[edge.From] ELSE EmptyMap
        inB == IF edge.To \in DOMAIN g.inEdges
               THEN g.inEdges[edge.To] ELSE EmptyMap
    IN [g EXCEPT !.edges = MapPut(g.edges, edgeKey, edgeCopy),
                 !.outEdges = MapPut(g.outEdges, edge.From,
                                     MapPut(outB, edgeKey, edgeCopy)),
                 !.inEdges = MapPut(g.inEdges, edge.To,
                                    MapPut(inB, edgeKey, edgeCopy))]

\* An AddEdge without the check of its to node
MemAddEdgeNoToCheck(g, edge) ==
    IF EdgeValidate(edge) # "ok" THEN Ret(g, EdgeValidate(edge))
    ELSE IF g.closed THEN Ret(g, "ErrGraphClosed")
    ELSE IF edge.From \notin DOMAIN g.nodes THEN Ret(g, "ErrNodeNotFound")
    ELSE IF makeEdgeKey(edge.From, edge.To, edge.Label) \in DOMAIN g.edges
    THEN Ret(g, "ErrEdgeExists")
    ELSE Ret(AddEdgeStore(g, edge), "ok")

\* An AddEdge without the check for a stored edge
MemAddEdgeOverwrite(g, edge) ==
    IF EdgeValidate(edge) # "ok" THEN Ret(g, EdgeValidate(edge))
    ELSE IF g.closed THEN Ret(g, "ErrGraphClosed")
    ELSE IF edge.From \notin DOMAIN g.nodes THEN Ret(g, "ErrNodeNotFound")
    ELSE IF edge.To \notin DOMAIN g.nodes THEN Ret(g, "ErrNodeNotFound")
    ELSE Ret(AddEdgeStore(g, edge), "ok")

MemAddEdge(g, edge) ==
    IF EdgeValidate(edge) # "ok" THEN Ret(g, EdgeValidate(edge))
    ELSE IF g.closed THEN Ret(g, "ErrGraphClosed")
    ELSE IF edge.From \notin DOMAIN g.nodes THEN Ret(g, "ErrNodeNotFound")
    ELSE IF edge.To \notin DOMAIN g.nodes THEN Ret(g, "ErrNodeNotFound")
    ELSE
      LET edgeKey == makeEdgeKey(edge.From, edge.To, edge.Label)
      IN IF edgeKey \in DOMAIN g.edges THEN Ret(g, "ErrEdgeExists")
         ELSE
           LET edgeCopy == IF edge.Props.isNil
                           THEN [edge EXCEPT !.Props = NoProps] ELSE edge
               outB == IF edge.From \in DOMAIN g.outEdges
                       THEN g.outEdges[edge.From] ELSE EmptyMap
               g1 == [g EXCEPT !.edges = MapPut(g.edges, edgeKey, edgeCopy),
                               !.outEdges = MapPut(g.outEdges, edge.From,
                                              MapPut(outB, edgeKey, edgeCopy))]
               inB == IF edge.To \in DOMAIN g1.inEdges
                      THEN g1.inEdges[edge.To] ELSE EmptyMap
           IN Ret([g1 EXCEPT !.inEdges = MapPut(g1.inEdges, edge.To,
                                            MapPut(inB, edgeKey, edgeCopy))],
                  "ok")

MemGetEdge(g, from, to, label) ==
    LET edgeKey == makeEdgeKey(from, to, label)
    IN IF g.closed
       THEN [edge |-> Edge("", "", "", NilProps), err |-> "ErrGraphClosed"]
       ELSE IF edgeKey \notin DOMAIN g.edges
       THEN [edge |-> Edge("", "", "", NilProps), err |-> "ErrEdgeNotFound"]
       ELSE [edge |-> g.edges[edgeKey], err |-> "ok"]

\* delete(bucket, key), then delete the bucket itself when it became empty
DropFromBucket(index, owner, edgeKey) ==
    IF owner \in DOMAIN index
    THEN LET bucket == MapDel(index[owner], edgeKey)
         IN IF DOMAIN bucket = {}
            THEN MapDel(index, owner)
            ELSE MapPut(index, owner, bucket)
    ELSE index

\* A DeleteEdge that clears the source's bucket before it looks for the edge
MemDeleteEdgeBucketFirst(g, from, to, label) ==
    IF g.closed THEN Ret(g, "ErrGraphClosed")
    ELSE IF makeEdgeKey(from, to, label) \notin DOMAIN g.edges
    THEN Ret([g EXCEPT !.outEdges = MapDel(g.outEdges, from)], "ErrEdgeNotFound")
    ELSE Ret([g EXCEPT !.edges = MapDel(g.edges, makeEdgeKey(from, to, label)),
                       !.outEdges = MapDel(g.outEdges, from)], "ok")

\* A DeleteEdge that takes the edge out of the indexes only
MemDeleteEdgeIndexOnly(g, from, to, label) ==
    LET edgeKey == makeEdgeKey(from, to, label)
    IN IF g.closed THEN Ret(g, "ErrGraphClosed")
       ELSE IF edgeKey \notin DOMAIN g.edges THEN Ret(g, "ErrEdgeNotFound")
       ELSE Ret([g EXCEPT !.outEdges = DropFromBucket(g.outEdges, from, edgeKey),
                          !.inEdges = DropFromBucket(g.inEdges, to, edgeKey)],
                "ok")

MemDeleteEdge(g, from, to, label) ==
    LET edgeKey == makeEdgeKey(from, to, label)
    IN IF g.closed THEN Ret(g, "ErrGraphClosed")
       ELSE IF edgeKey \notin DOMAIN g.edges THEN Ret(g, "ErrEdgeNotFound")
       ELSE Ret([g EXCEPT !.edges = MapDel(g.edges, edgeKey),
                          !.outEdges = DropFromBucket(g.outEdges, from, edgeKey),
                          !.inEdges = DropFromBucket(g.inEdges, to, edgeKey)],
                "ok")

MemNodeExists(g, id) == ~g.closed /\ id \in DOMAIN g.nodes

\* The ids GetNeighbors collects in its neighbors map (deduplicated by id)
OutNeighborIds(g, id) ==
    IF id \in DOMAIN g.outEdges
    THEN {g.outEdges[id][k].To : k \in DOMAIN g.outEdges[id]} \cap DOMAIN g.nodes
    ELSE {}

InNeighborIds(g, id) ==
    IF id \in DOMAIN g.inEdges
    THEN {g.inEdges[id][k].From : k \in DOMAIN g.inEdges[id]} \cap DOMAIN g.nodes
    ELSE {}

MemGetNeighbors(g, nodeID, direction) ==
    IF g.closed THEN [ids |-> {}, err |-> "ErrGraphClosed"]
    ELSE IF ~MemNodeExists(g, nodeID) THEN [ids |-> {}, err |-> "ErrNodeNotFound"]
    ELSE IF direction = "out"
         THEN [ids |-> OutNeighborIds(g, nodeID), err |-> "ok"]
    ELSE IF direction = "in"
         THEN [ids |-> InNeighborIds(g, nodeID), err |-> "ok"]
    ELSE IF direction = "both"
         THEN [ids |-> OutNeighborIds(g, nodeID) \cup InNeighborIds(g, nodeID),
               err |-> "ok"]
    ELSE [ids |-> {}, err |-> "ErrInvalidDirection"]

MemGetNodesByType(g, nodeType) ==
    IF g.closed THEN [nodes |-> {}, err |-> "ErrGraphClosed"]
    ELSE IF nodeType \notin DOMAIN g.nodesByType THEN [nodes |-> {}, err |-> "ok"]
    ELSE [nodes |-> {g.nodesByType[nodeType][i] :
                       i \in DOMAIN g.nodesByType[nodeType]},
          err |-> "ok"]

(***************************************************************************)
(* BoltBackend: the committed contents of the nodes and edges buckets, and *)
(* the JSON documents stored in them                                       *)
(***************************************************************************)
EmptyDB == [nodes |-> EmptyMap, edges |-> EmptyMap]

\* json.Marshal with `omitempty`: an empty type and a nil or empty props
\* mapping are left out of the document
SerializeNode(node) ==
    [id |-> node.ID,
     hasType |-> node.Type # "", type |-> node.Type,
     hasProps |-> DOMAIN node.Props.kv # {}, props |-> node.Props.kv]

SerializeEdge(edge) ==
    [from |-> edge.From, to |-> edge.To, label |-> edge.Label,
     hasProps |-> DOMAIN edge.Props.kv # {}, props |-> edge.Props.kv]

\* json.Unmarshal: an absent field keeps the zero value ("" or the nil map)
DeserializeNode(doc) ==
    Node(doc.id,
         IF doc.hasType THEN doc.type ELSE "",
         IF doc.hasProps THEN [isNil |-> FALSE, kv |-> doc.props] ELSE NilProps)

DeserializeEdge(doc) ==
    Edge(doc.from, doc.to, doc.label,
         IF doc.hasProps THEN [isNil |-> FALSE, kv |-> doc.props] ELSE NilProps)

\* A write transaction works on its own copy of the buckets; Commit installs it
TxSaveNode(tx, node) ==
    [tx EXCEPT !.nodes = MapPut(tx.nodes, node.ID, SerializeNode(node))]

TxDeleteNode(tx, id) == [tx EXCEPT !.nodes = MapDel(tx.nodes, id)]

TxSaveEdge(tx, edge) ==
    [tx EXCEPT !.edges = MapPut(tx.edges,
                                makeEdgeKey(edge.From, edge.To, edge.Label),
                                SerializeEdge(edge))]

TxDeleteEdge(tx, from, to, label) ==
    [tx EXCEPT !.edges = MapDel(tx.edges, makeEdgeKey(from, to, label))]

\* A stored value that json.Unmarshal rejects (the file was damaged or
\* written by something else)
CorruptDoc == [bytes |-> "{"]
IsCorrupt(doc) == "bytes" \in DOMAIN doc

\* LoadGraph returns a nil graph with its error
NilGraph == [isNil |-> TRUE]

\* LoadGraph: every stored node, then every stored edge, is deserialized and
\* added to a fresh MemoryGraph; the first value that fails to deserialize
\* or to be added aborts the load.  (ForEach visits the keys in byte order;
\* neither the loaded graph nor whether the load fails depends on the
\* order.)
RECURSIVE LoadNodes(_, _, _)
LoadNodes(g, bucket, todo) ==
    IF todo = {} THEN Ret(g, "ok")
    ELSE LET k == CHOOSE x \in todo : TRUE
         IN IF IsCorrupt(bucket[k])
            THEN Ret(g, "failed to deserialize node")
            ELSE LET r == MemAddNode(g, DeserializeNode(bucket[k]))
                 IN IF r.err # "ok" THEN Ret(g, "failed to add node")
                    ELSE LoadNodes(r.g, bucket, todo \ {k})

RECURSIVE LoadEdges(_, _, _)
LoadEdges(g, bucket, todo) ==
    IF todo = {} THEN Ret(g, "ok")
    ELSE LET k == CHOOSE x \in todo : TRUE
         IN IF IsCorrupt(bucket[k])
            THEN Ret(g, "failed to deserialize edge")
            ELSE LET r == MemAddEdge(g, DeserializeEdge(bucket[k]))
                 IN IF r.err # "ok" THEN Ret(g, "failed to add edge")
                    ELSE LoadEdges(r.g, bucket, todo \ {k})

\* The View transaction of LoadGraph: the graph built so far and the error
\* that stopped it
LoadReplay(d) ==
    LET n == LoadNodes(NewMemoryGraph, d.nodes, DOMAIN d.nodes)
    IN IF n.err # "ok" THEN n
       ELSE LoadEdges(n.g, d.edges, DOMAIN d.edges)

LoadGraph(d) ==
    LET replayed == LoadReplay(d)
    IN IF replayed.err # "ok" THEN Ret(NilGraph, replayed.err)
       ELSE replayed

(***************************************************************************)
(* PersistentGraph: each mutation applies to memory and to one write       *)
(* transaction.  fail names the step of the backend that fails: "begin"    *)
(* (BeginTransaction), "persist" (the Save/Delete call), "commit", or      *)
(* "none".  Each returns [g, db, err].                                     *)
(***************************************************************************)
Failures == {"none", "begin", "persist", "commit"}
PersistErrors ==
    {"failed to begin transaction", "failed to persist", "failed to commit"}

\* The error a mutation returns when the named step of the backend fails
FailureError(fail) ==
    IF fail = "begin" THEN "failed to begin transaction"
    ELSE IF fail = "persist" THEN "failed to persist"
    ELSE "failed to commit"

PRet(g, d, err) == [g |-> g, db |-> d, err |-> err]

PersistentAddNode(g, d, node, fail) ==
    LET added == MemAddNode(g, node)
        undone == MemDeleteNode(added.g, node.ID).g
    IN IF added.err # "ok" THEN PRet(g, d, added.err)
       ELSE IF fail = "begin" THEN PRet(undone, d, "failed to begin transaction")
       ELSE IF fail = "persist" THEN PRet(undone, d, "failed to persist")
       ELSE IF fail = "commit" THEN PRet(undone, d, "failed to commit")
       ELSE PRet(added.g, TxSaveNode(d, node), "ok")

PersistentDeleteNode(g, d, id, fail) ==
    LET got == MemGetNode(g, id)
        deleted == MemDeleteNode(g, id)
        undone == MemAddNode(deleted.g, got.node).g
    IN IF got.err # "ok" THEN PRet(g, d, got.err)
       ELSE IF fail = "begin" THEN PRet(g, d, "failed to begin transaction")
       ELSE IF deleted.err # "ok" THEN PRet(g, d, deleted.err)
       ELSE IF fail = "persist" THEN PRet(undone, d, "failed to persist")
       ELSE IF fail = "commit" THEN PRet(undone, d, "failed to commit")
       ELSE PRet(deleted.g, TxDeleteNode(d, id), "ok")

PersistentAddEdge(g, d, edge, fail) ==
    LET added == MemAddEdge(g, edge)
        undone == MemDeleteEdge(added.g, edge.From, edge.To, edge.Label).g
    IN IF added.err # "ok" THEN PRet(g, d, added.err)
       ELSE IF fail = "begin" THEN PRet(undone, d, "failed to begin transaction")
       ELSE IF fail = "persist" THEN PRet(undone, d, "failed to persist")
       ELSE IF fail = "commit" THEN PRet(undone, d, "failed to commit")
       ELSE PRet(added.g, TxSaveEdge(d, edge), "ok")

PersistentDeleteEdge(g, d, from, to, label, fail) ==
    LET got == MemGetEdge(g, from, to, label)
        deleted == MemDeleteEdge(g, from, to, label)
        undone == MemAddEdge(deleted.g, got.edge).g
    IN IF got.err # "ok" THEN PRet(g, d, got.err)
       ELSE IF fail = "begin" THEN PRet(g, d, "failed to begin transaction")
       ELSE IF deleted.err # "ok" THEN PRet(g, d, deleted.err)
       ELSE IF fail = "persist" THEN PRet(undone, d, "failed to persist")
       ELSE IF fail = "commit" THEN PRet(undone, d, "failed to commit")
       ELSE PRet(deleted.g, TxDeleteEdge(d, from, to, label), "ok")

\* NewPersistentGraph on the same store, then Load: the loaded graph replaces
\* the fresh memory graph, or the memory graph stays as it is when LoadGraph
\* fails
PersistentLoadPartial(g, d) ==
    LET loaded == LoadReplay(d)
    IN PRet(loaded.g, d,
            IF loaded.err # "ok" THEN "failed to load from storage" ELSE "ok")

PersistentLoad(g, d) ==
    LET loaded == LoadGraph(d)
    IN IF loaded.err # "ok" THEN PRet(g, d, "failed to load from storage")
       ELSE PRet(loaded.g, d, "ok")

(***************************************************************************)
(* QueryEngine.findPaths.  A []string is a slice [arr, len] into a backing *)
(* array of the heap; the length of the backing array is its capacity.     *)
(***************************************************************************)
PathNodeIds == {"a", "b", "c", "d", "e", "f"}
PathEdges ==
    {<<"a", "b">>, <<"b", "c">>, <<"c", "d">>, <<"c", "e">>, <<"d", "f">>,
     <<"e", "f">>, <<"a", "f">>, <<"f", "a">>, <<"c", "f">>, <<"d", "e">>}
QueryFrom == {"a", "c", "x"}
QueryTo == {"f", "a", "x"}
DefaultMaxDepth == 4
MaxDepthCeiling == 10
DepthInputs == {0, 1, 3, 4, MaxDepthCeiling + 1}

\* The capacity append gives the new backing array when the old one is full
\* (Go runtime growslice: double, for small slices)
GrowCap(cap) == 2 * cap

Pad(n) == [i \in 1..n |-> ""]

SliceOf(heap, sl) == SubSeq(heap[sl.arr], 1, sl.len)

\* append(sl, x): in place when the backing array has room, else into a new,
\* larger backing array; returns the heap and the new slice
GoAppend(heap, sl, x) ==
    IF sl.len < Len(heap[sl.arr])
    THEN [heap |-> [heap EXCEPT ![sl.arr][sl.len + 1] = x],
          slice |-> [arr |-> sl.arr, len |-> sl.len + 1]]
    ELSE [heap |-> Append(heap,
                     SliceOf(heap, sl) \o <<x>>
                        \o Pad(GrowCap(Len(heap[sl.arr])) - sl.len - 1)),
          slice |-> [arr |-> Len(heap) + 1, len |-> sl.len + 1]]

contains(slice, item) == \E i \in 1..Len(slice) : slice[i] = item

\* The orders in which a range over a Go map may yield the ids
Orders(ids) ==
    {o \in [1..Cardinality(ids) -> ids] : \A x \in ids : \E i \in DOMAIN o : o[i] = x}

IdleQuery ==
    [pc |-> "idle", from |-> "", to |-> "", maxDepth |-> 0,
     heap |-> <<>>, queue |-> <<>>, current |-> <<>>, neighbors |-> <<>>,
     newPath |-> <<>>, pathNodes |-> <<>>, paths |-> <<>>,
     nodes |-> <<>>, edges |-> <<>>]

\* A graph the program builds with AddNode and AddEdge calls
RECURSIVE WithNodes(_, _)
WithNodes(g, ids) ==
    IF ids = {} THEN g
    ELSE LET id == CHOOSE x \in ids : TRUE
         IN WithNodes(MemAddNode(g, Node(id, "t", NilProps)).g, ids \ {id})

RECURSIVE WithEdges(_, _)
WithEdges(g, es) ==
    IF es = {} THEN g
    ELSE LET e == CHOOSE x \in es : TRUE
         IN WithEdges(MemAddEdge(g, Edge(e[1], e[2], "l", NilProps)).g, es \ {e})

(***************************************************************************)
(* sync.RWMutex.  holds[t] counts the read locks thread t holds; writer is *)
(* the thread that called Lock and has announced itself to the readers     *)
(* (from then on RLock blocks); locked says it has the lock; blocked are   *)
(* the threads blocked in RLock, which the writer's Unlock admits.         *)
(***************************************************************************)
Threads == {"t1", "t2", "t3"}

NewRWMutex ==
    [holds |-> [t \in Threads |-> 0], writer |-> "none", locked |-> FALSE,
     blocked |-> {}]

\* RLock returns at once unless a writer holds the lock or waits for it
RLockAdmits(m) == m.writer = "none"

RLockAcquire(m, t) == [m EXCEPT !.holds[t] = @ + 1]

RLockBlock(m, t) == [m EXCEPT !.blocked = @ \cup {t}]

RUnlock(m, t) == [m EXCEPT !.holds[t] = @ - 1]

\* A Lock that lets a second writer in
LockAdmitsAlways(m) == TRUE

\* Lock: first the writers' own mutex and the announcement ...
LockAdmits(m) == m.writer = "none"

LockAnnounce(m, t) == [m EXCEPT !.writer = t]

\* A Lock that does not wait for the read locks
ReadersDrainedNoWait(m) == TRUE

\* ... then the wait for the read locks held at that time to be released
ReadersDrained(m) == \A t \in Threads : m.holds[t] = 0

LockAcquire(m) == [m EXCEPT !.locked = TRUE]

Unlock(m) ==
    [holds |-> [t \in Threads |-> IF t \in m.blocked THEN m.holds[t] + 1
                                  ELSE m.holds[t]],
     writer |-> "none", locked |-> FALSE, blocked |-> {}]

\* A caller: where it is in its call, whether it is blocked in RLock, and the
\* call's locals
IdleThread ==
    [pc |-> "idle", blocked |-> FALSE, op |-> "", err |-> "",
     node |-> Node("", "", NilProps), edge |-> Edge("", "", "", NilProps)]

\* Where a caller continues once the RLock it is in returns
AfterRLock(pc) ==
    IF pc = "gn_rlock" THEN "gn_rlock2"
    ELSE IF pc = "gn_rlock2" THEN "gn_exists"
    ELSE IF pc = "get_rlock" THEN "get_body"
    ELSE IF pc = "cn_rlock" THEN "cn_exists"
    ELSE IF pc = "ce_rlock_from" THEN "ce_from"
    ELSE IF pc = "ce_rlock_to" THEN "ce_to"
    ELSE IF pc = "ce_rlock_get" THEN "ce_get"
    ELSE "pg_read"

\* The callers after thread t's Unlock of m and its return
AfterUnlock(threads, m, t) ==
    [u \in Threads |->
        IF u = t THEN IdleThread
        ELSE IF u \in m.blocked
        THEN [threads[u] EXCEPT !.pc = AfterRLock(@), !.blocked = FALSE]
        ELSE threads[u]]

(***************************************************************************)
(* State                                                                   *)
(***************************************************************************)
VARIABLES
    graph,      \* the MemoryGraph (PersistentGraph.memory in the storage layer)
    db,         \* the BoltDB file: the committed nodes and edges buckets
    ret,        \* what the last call returned: [op, arg, err]
    qe,         \* the findPaths call in progress: its position and locals
    seen,       \* the graphs that existed since the running query began
    mu,         \* MemoryGraph.mu
    pgmu,       \* PersistentGraph.mu
    thr,        \* the concurrent callers: position and locals of each
    maps,       \* the props mappings on the heap that callers hold references to
    handler,    \* the mcp Handler: its initialized flag, the request it is
                \* processing and the response it wrote last
    run,        \* Handler.Run: its position, stdin, stdout and the context
    saver       \* PersistentGraph's auto-save loop, its channels and backend

conc == <<seen, mu, pgmu, thr, maps, handler, run, saver>>
vars == <<graph, db, ret, qe, seen, mu, pgmu, thr, maps, handler, run, saver>>

Returned(op, arg, err) == [op |-> op, arg |-> arg, err |-> err]

(***************************************************************************)
(* Calls on the in-memory graph, one at a time                             *)
(***************************************************************************)
Snapshot(g) == [nodes |-> g.nodes, edges |-> g.edges]

\* NewHandler: the Handler before its first request
NoRequest == [valid |-> FALSE, jsonrpc |-> "", method |-> "", bytes |-> "not json"]
NoResponse == [kind |-> "nil"]
NewHandler ==
    [initialized |-> FALSE, pc |-> "idle", request |-> NoRequest,
     response |-> NoResponse]

\* Handler.Run before it is called: nothing read, nothing written
NewRun ==
    [pc |-> "new", stdin |-> <<>>, inputEnd |-> "open", consumed |-> <<>>,
     line |-> NoRequest, output |-> <<>>, canceled |-> FALSE, err |-> ""]

\* NewPersistentGraph without auto-save: no loop, stopChan open
NewSaver ==
    [created |-> FALSE, autoSave |-> FALSE, pc |-> "off", tick |-> FALSE,
     stopChan |-> "open", mu |-> "free", backend |-> "open",
     loadPc |-> "idle", closePc |-> "idle"]

InitConc ==
    /\ seen = {}
    /\ maps = <<>>
    /\ handler = NewHandler
    /\ run = NewRun
    /\ saver = NewSaver
    /\ mu = NewRWMutex
    /\ pgmu = NewRWMutex
    /\ thr = [t \in Threads |-> IdleThread]

InitMem ==
    /\ graph = NewMemoryGraph
    /\ db = EmptyDB
    /\ ret = Returned("new", "", "ok")
    /\ qe = IdleQuery
    /\ InitConc

AddNode(node) ==
    LET r == MemAddNode(graph, node)
    IN /\ graph' = r.g
       /\ ret' = Returned("add_node", node.ID, r.err)
       /\ UNCHANGED <<db, qe, conc>>

DeleteNode(id) ==
    LET r == MemDeleteNode(graph, id)
    IN /\ graph' = r.g
       /\ ret' = Returned("delete_node", id, r.err)
       /\ UNCHANGED <<db, qe, conc>>

AddEdge(edge) ==
    LET r == MemAddEdge(graph, edge)
    IN /\ Cardinality(DOMAIN graph.edges) < MaxEdges
       /\ graph' = r.g
       /\ ret' = Returned("add_edge",
                          makeEdgeKey(edge.From, edge.To, edge.Label), r.err)
       /\ UNCHANGED <<db, qe, conc>>

DeleteEdge(from, to, label) ==
    LET r == MemDeleteEdge(graph, from, to, label)
    IN /\ graph' = r.g
       /\ ret' = Returned("delete_edge", makeEdgeKey(from, to, label), r.err)
       /\ UNCHANGED <<db, qe, conc>>

NextMem ==
    \/ \E node \in NodeInputs : AddNode(node)
    \/ \E id \in IdInputs : DeleteNode(id)
    \/ \E edge \in EdgeInputs : AddEdge(edge)
    \/ \E f \in IdInputs, t \in IdInputs, l \in LabelInputs : DeleteEdge(f, t, l)

Spec == InitMem /\ [][NextMem]_vars

(***************************************************************************)
(* Calls on the PersistentGraph, one at a time, with a backend whose steps *)
(* may fail (SpecPersist) or never fail (SpecDurable)                      *)
(***************************************************************************)
PGAddNode(node, fail) ==
    LET r == PersistentAddNode(graph, db, node, fail)
    IN /\ graph' = r.g
       /\ db' = r.db
       /\ ret' = Returned("add_node", node.ID, r.err)
       /\ UNCHANGED <<qe, conc>>

PGDeleteNode(id, fail) ==
    LET r == PersistentDeleteNode(graph, db, id, fail)
    IN /\ graph' = r.g
       /\ db' = r.db
       /\ ret' = Returned("delete_node", id, r.err)
       /\ UNCHANGED <<qe, conc>>

PGAddEdge(edge, fail) ==
    LET r == PersistentAddEdge(graph, db, edge, fail)
    IN /\ Cardinality(DOMAIN graph.edges) < MaxEdges
       /\ graph' = r.g
       /\ db' = r.db
       /\ ret' = Returned("add_edge",
                          makeEdgeKey(edge.From, edge.To, edge.Label), r.err)
       /\ UNCHANGED <<qe, conc>>

PGDeleteEdge(from, to, label, fail) ==
    LET r == PersistentDeleteEdge(graph, db, from, to, label, fail)
    IN /\ graph' = r.g
       /\ db' = r.db
       /\ ret' = Returned("delete_edge", makeEdgeKey(from, to, label), r.err)
       /\ UNCHANGED <<qe, conc>>

\* Close, reopen the same file with a new PersistentGraph, Load
PGReopenLoad ==
    LET r == PersistentLoad(NewMemoryGraph, db)
    IN /\ graph' = r.g
       /\ db' = r.db
       /\ ret' = Returned("load", "", r.err)
       /\ UNCHANGED <<qe, conc>>

NextPersist ==
    \/ \E node \in PNodeInputs, fail \in Failures : PGAddNode(node, fail)
    \/ \E id \in IdInputs, fail \in Failures : PGDeleteNode(id, fail)
    \/ \E edge \in PEdgeInputs, fail \in Failures : PGAddEdge(edge, fail)
    \/ \E f \in IdInputs, t \in IdInputs, l \in PLabelInputs, fail \in Failures :
          PGDeleteEdge(f, t, l, fail)

SpecPersist == InitMem /\ [][NextPersist]_vars

NextDurable ==
    \/ \E node \in PNodeInputs : PGAddNode(node, "none")
    \/ \E id \in IdInputs : PGDeleteNode(id, "none")
    \/ \E edge \in PEdgeInputs : PGAddEdge(edge, "none")
    \/ \E f \in IdInputs, t \in IdInputs, l \in PLabelInputs :
          PGDeleteEdge(f, t, l, "none")
    \/ PGReopenLoad

SpecDurable == InitMem /\ [][NextDurable]_vars

(***************************************************************************)
(* Load on a store whose values were damaged or replaced from outside:     *)
(* calls that never fail, a Tamper that overwrites one stored value, and   *)
(* Load on the PersistentGraph in use                                      *)
(***************************************************************************)
MaxTampered == 1

\* The stored values that are not what the graph wrote under their key
Tampered(d) ==
    Cardinality({k \in DOMAIN d.nodes :
                    \/ IsCorrupt(d.nodes[k])
                    \/ d.nodes[k].id # k})
    + Cardinality({k \in DOMAIN d.edges :
                    \/ IsCorrupt(d.edges[k])
                    \/ makeEdgeKey(d.edges[k].from, d.edges[k].to,
                                   d.edges[k].label) # k})

TamperNode(k, doc) ==
    /\ k \in DOMAIN db.nodes
    /\ Tampered(db) < MaxTampered
    /\ db' = [db EXCEPT !.nodes = MapPut(db.nodes, k, doc)]
    /\ UNCHANGED <<graph, ret, qe, conc>>

TamperEdge(k, doc) ==
    /\ k \in DOMAIN db.edges
    /\ Tampered(db) < MaxTampered
    /\ db' = [db EXCEPT !.edges = MapPut(db.edges, k, doc)]
    /\ UNCHANGED <<graph, ret, qe, conc>>

LoadNodeInputs == {Node("a", "t", SomeProps), Node("b", "", NilProps)}
LoadEdgeInputs ==
    {Edge("a", "b", "l", NilProps), Edge("b", "a", "l", NilProps),
     Edge("a", "a", "l", NilProps)}
NodeDocs == {CorruptDoc} \cup {SerializeNode(n) : n \in LoadNodeInputs}
EdgeKeys == {makeEdgeKey(e.From, e.To, e.Label) : e \in LoadEdgeInputs}
EdgeDocs == {CorruptDoc} \cup {SerializeEdge(e) : e \in LoadEdgeInputs}

\* Load on the PersistentGraph in use: pg.memory is replaced only when
\* LoadGraph returned no error
PGLoad ==
    LET r == PersistentLoad(graph, db)
    IN /\ graph' = r.g
       /\ db' = r.db
       /\ ret' = Returned("load", "", r.err)
       /\ UNCHANGED <<qe, conc>>

NextLoad ==
    \/ \E node \in LoadNodeInputs : PGAddNode(node, "none")
    \/ \E id \in NodeIds : PGDeleteNode(id, "none")
    \/ \E edge \in LoadEdgeInputs : PGAddEdge(edge, "none")
    \/ \E k \in NodeIds, doc \in NodeDocs : TamperNode(k, doc)
    \/ \E k \in EdgeKeys, doc \in EdgeDocs : TamperEdge(k, doc)
    \/ PGLoad

SpecLoad == InitMem /\ [][NextLoad]_vars

(***************************************************************************)
(* Operations.UpdateNode on the memory graph: GetNode, the given props     *)
(* written over the node's, then DeleteNode and AddNode                    *)
(***************************************************************************)
Override(old, given) ==
    [k \in DOMAIN old \cup DOMAIN given |->
        IF k \in DOMAIN given THEN given[k] ELSE old[k]]

OpsUpdateNode(g, nodeID, props) ==
    IF nodeID = "" THEN Ret(g, "ErrEmptyNodeID")
    ELSE
      LET got == MemGetNode(g, nodeID)
          existingNode ==
            [got.node EXCEPT
                !.Props = [isNil |-> FALSE,
                           kv |-> Override(got.node.Props.kv, props.kv)]]
          deleted == MemDeleteNode(g, nodeID)
          added == MemAddNode(deleted.g, existingNode)
      IN IF got.err # "ok" THEN Ret(g, got.err)
         ELSE IF deleted.err # "ok"
         THEN Ret(g, "failed to delete node for update")
         ELSE IF added.err # "ok"
         THEN Ret(deleted.g, "failed to re-add updated node")
         ELSE Ret(added.g, "ok")

UpdateNodeInputs == {Node(id, "t", p) : id \in NodeIds, p \in PropsInputs}
UpdateEdgeInputs ==
    {Edge(f, t, "l", NilProps) : f \in NodeIds, t \in NodeIds}
UpdateProps ==
    {NilProps,
     [isNil |-> FALSE, kv |-> [name |-> "w"]],
     [isNil |-> FALSE, kv |-> [size |-> "1"]]}

UpdateNode(nodeID, props) ==
    LET r == OpsUpdateNode(graph, nodeID, props)
    IN /\ graph' = r.g
       /\ ret' = [op |-> "update_node", arg |-> nodeID, err |-> r.err,
                  props |-> props.kv]
       /\ UNCHANGED <<db, qe, conc>>

NextUpdate ==
    \/ \E node \in UpdateNodeInputs : AddNode(node)
    \/ \E id \in NodeIds : DeleteNode(id)
    \/ \E edge \in UpdateEdgeInputs : AddEdge(edge)
    \/ \E nodeID \in IdInputs, props \in UpdateProps :
            UpdateNode(nodeID, props)

SpecUpdate == InitMem /\ [][NextUpdate]_vars

(***************************************************************************)
(* PersistentGraph with auto-save: NewPersistentGraph, one Load, one       *)
(* Close, AddNode calls, and the autoSaveLoop goroutine that Load starts.  *)
(* saver.mu is pg.mu as these callers see it: free, or held by Load, by    *)
(* Close or by the loop's Save.                                            *)
(***************************************************************************)
SaverNodeInputs == {Node("a", "t", NilProps), Node("b", "", SomeProps)}

NewPersistentGraph(autoSave) ==
    /\ ~saver.created
    /\ saver' = [saver EXCEPT !.created = TRUE, !.autoSave = autoSave]
    /\ UNCHANGED <<graph, db, ret, qe, seen, mu, pgmu, thr, maps, handler, run>>

\* pg.mu.Lock() of Load
LoadLock ==
    /\ saver.created
    /\ saver.loadPc = "idle"
    /\ saver.mu = "free"
    /\ saver' = [saver EXCEPT !.mu = "load", !.loadPc = "locked"]
    /\ UNCHANGED <<graph, db, ret, qe, seen, mu, pgmu, thr, maps, handler, run>>

\* Load under the lock: LoadGraph (an error on a closed backend), the
\* assignment of pg.memory and `go pg.autoSaveLoop()`
LoadBody ==
    /\ saver.loadPc = "locked"
    /\ LET r == IF saver.backend = "closed"
                THEN PRet(graph, db, "failed to load from storage")
                ELSE PersistentLoad(graph, db)
       IN /\ graph' = r.g
          /\ ret' = Returned("load", "", r.err)
          /\ saver' = [saver EXCEPT
                          !.loadPc = "loaded",
                          !.pc = IF r.err = "ok" /\ saver.autoSave
                                 THEN "select" ELSE @]
    /\ UNCHANGED <<db, qe, seen, mu, pgmu, thr, maps, handler, run>>

\* The deferred pg.mu.Unlock() of Load
LoadUnlock ==
    /\ saver.loadPc = "loaded"
    /\ saver' = [saver EXCEPT !.mu = "free", !.loadPc = "returned"]
    /\ UNCHANGED <<graph, db, ret, qe, seen, mu, pgmu, thr, maps, handler, run>>

\* AddNode while nobody holds pg.mu; BeginTransaction fails on a closed
\* backend
SaverAddNode(node) ==
    /\ saver.created
    /\ saver.mu = "free"
    /\ PGAddNode(node, IF saver.backend = "closed" THEN "begin" ELSE "none")

\* The ticker puts a tick in ticker.C (a channel of capacity one) while the
\* loop runs
Tick ==
    /\ saver.pc \in {"select", "save_rlock", "save_body"}
    /\ ~saver.tick
    /\ saver' = [saver EXCEPT !.tick = TRUE]
    /\ UNCHANGED <<graph, db, ret, qe, seen, mu, pgmu, thr, maps, handler, run>>

\* select takes `case <-ticker.C` and calls pg.Save
LoopTick ==
    /\ saver.pc = "select"
    /\ saver.tick
    /\ saver' = [saver EXCEPT !.tick = FALSE, !.pc = "save_rlock"]
    /\ UNCHANGED <<graph, db, ret, qe, seen, mu, pgmu, thr, maps, handler, run>>

\* select takes `case <-pg.stopChan` and the loop returns
LoopStop ==
    /\ saver.pc = "select"
    /\ saver.stopChan = "closed"
    /\ saver' = [saver EXCEPT !.tick = FALSE, !.pc = "done"]
    /\ UNCHANGED <<graph, db, ret, qe, seen, mu, pgmu, thr, maps, handler, run>>

\* pg.mu.RLock() of Save
SaveRLock ==
    /\ saver.pc = "save_rlock"
    /\ saver.mu = "free"
    /\ saver' = [saver EXCEPT !.mu = "save", !.pc = "save_body"]
    /\ UNCHANGED <<graph, db, ret, qe, seen, mu, pgmu, thr, maps, handler, run>>

\* pg.backend.SaveGraph, which begins a write transaction and returns an
\* error without writing, then the deferred RUnlock and the next select
SaveBody ==
    /\ saver.pc = "save_body"
    /\ saver' = [saver EXCEPT !.mu = "free", !.pc = "select"]
    /\ UNCHANGED <<graph, db, ret, qe, seen, mu, pgmu, thr, maps, handler, run>>

\* pg.mu.Lock() of Close
CloseLock ==
    /\ saver.created
    /\ saver.closePc = "idle"
    /\ saver.mu = "free"
    /\ saver' = [saver EXCEPT !.mu = "close", !.closePc = "locked"]
    /\ UNCHANGED <<graph, db, ret, qe, seen, mu, pgmu, thr, maps, handler, run>>

\* `if pg.autoSave { close(pg.stopChan) }`
CloseStop ==
    /\ saver.closePc = "locked"
    /\ saver' = [saver EXCEPT
                    !.stopChan = IF saver.autoSave THEN "closed" ELSE @,
                    !.closePc = "stopped"]
    /\ UNCHANGED <<graph, db, ret, qe, seen, mu, pgmu, thr, maps, handler, run>>

\* pg.backend.Close()
CloseBackend ==
    /\ saver.closePc = "stopped"
    /\ saver' = [saver EXCEPT !.backend = "closed", !.closePc = "closed"]
    /\ UNCHANGED <<graph, db, ret, qe, seen, mu, pgmu, thr, maps, handler, run>>

\* The deferred pg.mu.Unlock() of Close
CloseUnlock ==
    /\ saver.closePc = "closed"
    /\ saver' = [saver EXCEPT !.mu = "free", !.closePc = "returned"]
    /\ UNCHANGED <<graph, db, ret, qe, seen, mu, pgmu, thr, maps, handler, run>>

CallerSteps == LoadBody \/ LoadUnlock \/ CloseStop \/ CloseBackend \/ CloseUnlock
LoopSteps == LoopTick \/ SaveRLock \/ SaveBody

NextSaver ==
    \/ \E autoSave \in BOOLEAN : NewPersistentGraph(autoSave)
    \/ LoadLock
    \/ LoadBody
    \/ LoadUnlock
    \/ \E node \in SaverNodeInputs : SaverAddNode(node)
    \/ Tick
    \/ LoopTick
    \/ LoopStop
    \/ SaveRLock
    \/ SaveBody
    \/ CloseLock
    \/ CloseStop
    \/ CloseBackend
    \/ CloseUnlock

SpecSaver == InitMem /\ [][NextSaver]_vars

\* A caller or the loop that can take its next step takes it; a select
\* with both channels ready picks one at random, so the loop does not
\* pass the closed stopChan by for ever
SpecSaverLive ==
    SpecSaver /\ WF_vars(CallerSteps) /\ WF_vars(LoopSteps) /\ SF_vars(LoopStop)

(***************************************************************************)
(* A paths query on the in-memory graph, one graph access per step         *)
(***************************************************************************)
InitPaths ==
    /\ \E es \in SUBSET PathEdges :
          graph = WithEdges(WithNodes(NewMemoryGraph, PathNodeIds), es)
    /\ db = EmptyDB
    /\ ret = Returned("new", "", "ok")
    /\ qe = IdleQuery
    /\ InitConc

QueryDone(err) ==
    /\ qe' = [qe EXCEPT !.pc = "done"]
    /\ ret' = Returned("query_paths", "", err)

\* queryPaths: the argument checks and the default depth
QueryPaths(from, to, maxDepth) ==
    /\ qe.pc = "idle"
    /\ IF from = "" \/ to = ""
       THEN /\ qe' = [qe EXCEPT !.pc = "done"]
            /\ ret' = Returned("query_paths", "", "from and to are required")
       ELSE IF maxDepth > MaxDepthCeiling
       THEN /\ qe' = [qe EXCEPT !.pc = "done"]
            /\ ret' = Returned("query_paths", "", "ErrMaxDepthExceeded")
       ELSE /\ qe' = [qe EXCEPT !.pc = "existsFrom", !.from = from, !.to = to,
                                !.maxDepth = IF maxDepth <= 0
                                             THEN DefaultMaxDepth ELSE maxDepth]
            /\ ret' = Returned("query_paths", "", "running")
    /\ UNCHANGED <<graph, db, conc>>

\* findPaths: NodeExists(from)
FindPathsFromExists ==
    /\ qe.pc = "existsFrom"
    /\ IF MemNodeExists(graph, qe.from)
       THEN qe' = [qe EXCEPT !.pc = "existsTo"] /\ UNCHANGED ret
       ELSE QueryDone("from node does not exist")
    /\ UNCHANGED <<graph, db, conc>>

\* A findPaths without the from == to case
FindPathsToExistsNoSelf ==
    /\ qe.pc = "existsTo"
    /\ IF ~MemNodeExists(graph, qe.to)
       THEN QueryDone("to node does not exist")
       ELSE /\ qe' = [qe EXCEPT
                 !.pc = "loop",
                 !.heap = << <<qe.from>> >>,
                 !.queue = << [currentNode |-> qe.from,
                               path |-> [arr |-> 1, len |-> 1],
                               depth |-> 0] >>]
            /\ UNCHANGED ret
    /\ UNCHANGED <<graph, db, conc>>

\* findPaths: NodeExists(to), then the initial queue
FindPathsToExists ==
    /\ qe.pc = "existsTo"
    /\ IF ~MemNodeExists(graph, qe.to)
       THEN QueryDone("to node does not exist")
       ELSE IF qe.from = qe.to
       THEN qe' = [qe EXCEPT !.pc = "self"] /\ UNCHANGED ret
       ELSE /\ qe' = [qe EXCEPT
                 !.pc = "loop",
                 !.heap = << <<qe.from>> >>,
                 !.queue = << [currentNode |-> qe.from,
                               path |-> [arr |-> 1, len |-> 1],
                               depth |-> 0] >>]
            /\ UNCHANGED ret
    /\ UNCHANGED <<graph, db, conc>>

\* findPaths: the self-path, GetNode(from)
FindPathsSelf ==
    /\ qe.pc = "self"
    /\ LET got == MemGetNode(graph, qe.from)
       IN IF got.err # "ok"
          THEN QueryDone(got.err)
          ELSE /\ qe' = [qe EXCEPT !.pc = "done", !.paths = << <<got.node>> >>]
               /\ ret' = Returned("query_paths", "", "ok")
    /\ UNCHANGED <<graph, db, conc>>

\* findPaths: one turn of `for len(queue) > 0`: dequeue, the depth check and
\* GetNeighbors(current, "out"), whose result comes in any order
FindPathsDequeue ==
    /\ qe.pc = "loop"
    /\ IF qe.queue = <<>>
       THEN /\ qe' = [qe EXCEPT !.pc = "done"]
            /\ ret' = Returned("query_paths", "", "ok")
       ELSE LET current == Head(qe.queue)
                got == MemGetNeighbors(graph, current.currentNode, "out")
            IN /\ UNCHANGED ret
               /\ IF current.depth >= qe.maxDepth \/ got.err # "ok"
                  THEN qe' = [qe EXCEPT !.queue = Tail(qe.queue)]
                  ELSE \E order \in Orders(got.ids) :
                          qe' = [qe EXCEPT !.pc = "range",
                                           !.queue = Tail(qe.queue),
                                           !.current = current,
                                           !.neighbors = order]
    /\ UNCHANGED <<graph, db, conc>>

\* findPaths: one turn of `for _, neighbor := range neighbors`
FindPathsNeighbor ==
    /\ qe.pc = "range"
    /\ IF qe.neighbors = <<>>
       THEN qe' = [qe EXCEPT !.pc = "loop"]
       ELSE LET neighbor == Head(qe.neighbors)
                rest == Tail(qe.neighbors)
                app == GoAppend(qe.heap, qe.current.path, neighbor)
            IN IF contains(SliceOf(qe.heap, qe.current.path), neighbor)
               THEN qe' = [qe EXCEPT !.neighbors = rest]
               ELSE IF neighbor = qe.to
               THEN qe' = [qe EXCEPT !.pc = "build",
                                     !.neighbors = rest,
                                     !.heap = app.heap,
                                     !.newPath = app.slice,
                                     !.pathNodes = <<>>]
               ELSE qe' = [qe EXCEPT
                      !.neighbors = rest,
                      !.heap = app.heap,
                      !.queue = Append(qe.queue,
                                  [currentNode |-> neighbor,
                                   path |-> app.slice,
                                   depth |-> qe.current.depth + 1])]
    /\ UNCHANGED <<graph, db, ret, conc>>

\* buildPathNodes: one GetNode per id of the path; a failing GetNode drops
\* the path
BuildPathNodes ==
    /\ qe.pc = "build"
    /\ LET nodeIDs == SliceOf(qe.heap, qe.newPath)
           got == MemGetNode(graph, nodeIDs[Len(qe.pathNodes) + 1])
           nodes == Append(qe.pathNodes, got.node)
       IN IF got.err # "ok"
          THEN qe' = [qe EXCEPT !.pc = "range", !.pathNodes = <<>>]
          ELSE IF Len(nodes) = Len(nodeIDs)
          THEN qe' = [qe EXCEPT !.pc = "range", !.pathNodes = <<>>,
                                !.paths = Append(qe.paths, nodes)]
          ELSE qe' = [qe EXCEPT !.pathNodes = nodes]
    /\ UNCHANGED <<graph, db, ret, conc>>

NextPaths ==
    \/ \E from \in QueryFrom, to \in QueryTo, maxDepth \in DepthInputs :
          QueryPaths(from, to, maxDepth)
    \/ FindPathsFromExists
    \/ FindPathsToExists
    \/ FindPathsSelf
    \/ FindPathsDequeue
    \/ FindPathsNeighbor
    \/ BuildPathNodes

SpecPaths == InitPaths /\ [][NextPaths]_vars

(***************************************************************************)
(* A paths query on the in-memory graph while writers call it.  Each graph *)
(* access of the query and each writer call is atomic (each takes          *)
(* MemoryGraph.mu for itself); the writers act between the query's         *)
(* accesses.                                                               *)
(***************************************************************************)
ConcIds == {"a", "b", "c"}
MaxSeen == 3

InitPathsConc ==
    /\ \E es \in SUBSET {<<"a", "b">>, <<"b", "c">>} :
          graph = WithEdges(WithNodes(NewMemoryGraph, ConcIds), es)
    /\ db = EmptyDB
    /\ ret = Returned("new", "", "ok")
    /\ qe = IdleQuery
    /\ seen = {Snapshot(graph)}
    /\ maps = <<>>
    /\ handler = NewHandler
    /\ run = NewRun
    /\ saver = NewSaver
    /\ mu = NewRWMutex
    /\ pgmu = NewRWMutex
    /\ thr = [t \in Threads |-> IdleThread]

QueryRunning == qe.pc \notin {"idle", "done"}

ConcWrite(g) ==
    /\ QueryRunning
    /\ Cardinality(seen) < MaxSeen
    /\ graph' = g
    /\ seen' = seen \cup {Snapshot(g)}
    /\ UNCHANGED <<db, ret, qe, maps, mu, pgmu, thr, handler, run, saver>>

ConcAddNode(id) == ConcWrite(MemAddNode(graph, Node(id, "t", NilProps)).g)

ConcDeleteNode(id) == ConcWrite(MemDeleteNode(graph, id).g)

ConcAddEdge(from, to) ==
    ConcWrite(MemAddEdge(graph, Edge(from, to, "l", NilProps)).g)

ConcDeleteEdge(from, to) == ConcWrite(MemDeleteEdge(graph, from, to, "l").g)

NextPathsConc ==
    \/ QueryPaths("a", "c", DefaultMaxDepth)
    \/ FindPathsFromExists
    \/ FindPathsToExists
    \/ FindPathsDequeue
    \/ FindPathsNeighbor
    \/ BuildPathNodes
    \/ \E id \in ConcIds : ConcAddNode(id)
    \/ \E id \in ConcIds : ConcDeleteNode(id)
    \/ \E from \in ConcIds, to \in ConcIds : ConcAddEdge(from, to)
    \/ \E from \in ConcIds, to \in ConcIds : ConcDeleteEdge(from, to)

SpecPathsConc == InitPathsConc /\ [][NextPathsConc]_vars

(***************************************************************************)
(* Concurrent callers of the in-memory graph, one lock operation per step  *)
(***************************************************************************)
LockNodeInputs == {Node(id, "t", NilProps) : id \in NodeIds}
LockEdgeInputs == {Edge(f, t, "l", NilProps) : f \in NodeIds, t \in NodeIds}

CallGetNeighbors(t) ==
    /\ thr[t].pc = "idle"
    /\ thr' = [thr EXCEPT ![t].pc = "gn_rlock", ![t].op = "neighbors"]
    /\ UNCHANGED <<graph, db, ret, qe, maps, seen, mu, pgmu, handler, run, saver>>

CallGetNode(t) ==
    /\ thr[t].pc = "idle"
    /\ thr' = [thr EXCEPT ![t].pc = "get_rlock", ![t].op = "get_node"]
    /\ UNCHANGED <<graph, db, ret, qe, maps, seen, mu, pgmu, handler, run, saver>>

CallWrite(t) ==
    /\ thr[t].pc = "idle"
    /\ thr' = [thr EXCEPT ![t].pc = "w_lock", ![t].op = "write"]
    /\ UNCHANGED <<graph, db, ret, qe, maps, seen, mu, pgmu, handler, run, saver>>

\* g.mu.RLock(): in GetNode (memory.go:73), in GetNeighbors (286) and in the
\* NodeExists that GetNeighbors calls while it holds its read lock (293, 251)
MemRLock(t) ==
    /\ thr[t].pc \in {"gn_rlock", "gn_rlock2", "get_rlock"}
    /\ ~thr[t].blocked
    /\ IF RLockAdmits(mu)
       THEN /\ mu' = RLockAcquire(mu, t)
            /\ thr' = [thr EXCEPT ![t].pc = AfterRLock(@)]
       ELSE /\ mu' = RLockBlock(mu, t)
            /\ thr' = [thr EXCEPT ![t].blocked = TRUE]
    /\ UNCHANGED <<graph, db, ret, qe, maps, seen, pgmu, handler, run, saver>>

\* NodeExists returns to GetNeighbors (deferred RUnlock)
NodeExistsReturn(t) ==
    /\ thr[t].pc = "gn_exists"
    /\ mu' = RUnlock(mu, t)
    /\ thr' = [thr EXCEPT ![t].pc = "gn_body"]
    /\ UNCHANGED <<graph, db, ret, qe, maps, seen, pgmu, handler, run, saver>>

\* GetNeighbors and GetNode return (deferred RUnlock)
ReadReturn(t) ==
    /\ thr[t].pc \in {"gn_body", "get_body"}
    /\ mu' = RUnlock(mu, t)
    /\ thr' = [thr EXCEPT ![t] = IdleThread]
    /\ UNCHANGED <<graph, db, ret, qe, maps, seen, pgmu, handler, run, saver>>

\* g.mu.Lock() of a writer, in its two stages
MemLock(t) ==
    /\ thr[t].pc = "w_lock"
    /\ LockAdmits(mu)
    /\ mu' = LockAnnounce(mu, t)
    /\ thr' = [thr EXCEPT ![t].pc = "w_wait"]
    /\ UNCHANGED <<graph, db, ret, qe, maps, seen, pgmu, handler, run, saver>>

MemLockAcquired(t) ==
    /\ thr[t].pc = "w_wait"
    /\ ReadersDrained(mu)
    /\ mu' = LockAcquire(mu)
    /\ thr' = [thr EXCEPT ![t].pc = "w_body"]
    /\ UNCHANGED <<graph, db, ret, qe, maps, seen, pgmu, handler, run, saver>>

\* The writer's body under the lock, and its deferred Unlock
MemWrite(t, r) ==
    /\ thr[t].pc = "w_body"
    /\ graph' = r.g
    /\ mu' = Unlock(mu)
    /\ thr' = AfterUnlock(thr, mu, t)
    /\ UNCHANGED <<db, ret, qe, maps, seen, pgmu, handler, run, saver>>

WriteAddNode(t, node) == MemWrite(t, MemAddNode(graph, node))

WriteDeleteNode(t, id) == MemWrite(t, MemDeleteNode(graph, id))

WriteAddEdge(t, edge) == MemWrite(t, MemAddEdge(graph, edge))

WriteDeleteEdge(t, edge) ==
    MemWrite(t, MemDeleteEdge(graph, edge.From, edge.To, edge.Label))

NextLock ==
    \/ \E t \in Threads : CallGetNeighbors(t)
    \/ \E t \in Threads : CallGetNode(t)
    \/ \E t \in Threads : CallWrite(t)
    \/ \E t \in Threads : MemRLock(t)
    \/ \E t \in Threads : NodeExistsReturn(t)
    \/ \E t \in Threads : ReadReturn(t)
    \/ \E t \in Threads : MemLock(t)
    \/ \E t \in Threads : MemLockAcquired(t)
    \/ \E t \in Threads, node \in LockNodeInputs : WriteAddNode(t, node)
    \/ \E t \in Threads, id \in NodeIds : WriteDeleteNode(t, id)
    \/ \E t \in Threads, edge \in LockEdgeInputs : WriteAddEdge(t, edge)
    \/ \E t \in Threads, edge \in LockEdgeInputs : WriteDeleteEdge(t, edge)

SpecLock == InitMem /\ [][NextLock]_vars

(***************************************************************************)
(* Concurrent callers of one PersistentGraph.  Every method takes pg.mu    *)
(* for its whole body; a mutation changes the memory graph first and the   *)
(* store second, so between the two the memory graph holds a change that   *)
(* is not yet committed and may still be compensated.  The memory graph's  *)
(* own lock is only ever taken from inside these methods.                  *)
(***************************************************************************)
PGEdgeInputs == {e \in LockEdgeInputs : e.From # e.To}

PGReaders == {"t1", "t2"}
PGWriters == {"t2", "t3"}

PGCallRead(t) ==
    /\ t \in PGReaders
    /\ thr[t].pc = "idle"
    /\ thr' = [thr EXCEPT ![t].pc = "pg_rlock", ![t].op = "read"]
    /\ UNCHANGED <<graph, db, ret, qe, maps, seen, mu, pgmu, handler, run, saver>>

PGCallWrite(t) ==
    /\ t \in PGWriters
    /\ thr[t].pc = "idle"
    /\ thr' = [thr EXCEPT ![t].pc = "pg_lock", ![t].op = "write"]
    /\ UNCHANGED <<graph, db, ret, qe, maps, seen, mu, pgmu, handler, run, saver>>

\* pg.mu.RLock() of GetNode, GetEdge, Query, NodeExists, GetNodesByType and
\* GetNeighbors
PGRLock(t) ==
    /\ thr[t].pc = "pg_rlock"
    /\ ~thr[t].blocked
    /\ IF RLockAdmits(pgmu)
       THEN /\ pgmu' = RLockAcquire(pgmu, t)
            /\ thr' = [thr EXCEPT ![t].pc = AfterRLock(@)]
       ELSE /\ pgmu' = RLockBlock(pgmu, t)
            /\ thr' = [thr EXCEPT ![t].blocked = TRUE]
    /\ UNCHANGED <<graph, db, ret, qe, maps, seen, mu, handler, run, saver>>

\* GetNode: the read of the memory graph and the deferred RUnlock
PGGetNode(t, id) ==
    /\ thr[t].pc = "pg_read"
    /\ ret' = Returned("get_node", id, MemGetNode(graph, id).err)
    /\ pgmu' = RUnlock(pgmu, t)
    /\ thr' = [thr EXCEPT ![t] = IdleThread]
    /\ UNCHANGED <<graph, db, qe, maps, seen, mu, handler, run, saver>>

\* GetEdge: the read of the memory graph and the deferred RUnlock
PGGetEdge(t, edge) ==
    /\ thr[t].pc = "pg_read"
    /\ ret' = Returned("get_edge", makeEdgeKey(edge.From, edge.To, edge.Label),
                       MemGetEdge(graph, edge.From, edge.To, edge.Label).err)
    /\ pgmu' = RUnlock(pgmu, t)
    /\ thr' = [thr EXCEPT ![t] = IdleThread]
    /\ UNCHANGED <<graph, db, qe, maps, seen, mu, handler, run, saver>>

\* pg.mu.Lock() of AddNode, DeleteNode, AddEdge and DeleteEdge, in its two
\* stages
PGLock(t) ==
    /\ thr[t].pc = "pg_lock"
    /\ LockAdmits(pgmu)
    /\ pgmu' = LockAnnounce(pgmu, t)
    /\ thr' = [thr EXCEPT ![t].pc = "pg_wait"]
    /\ UNCHANGED <<graph, db, ret, qe, maps, seen, mu, handler, run, saver>>

PGLockAcquired(t) ==
    /\ thr[t].pc = "pg_wait"
    /\ ReadersDrained(pgmu)
    /\ pgmu' = LockAcquire(pgmu)
    /\ thr' = [thr EXCEPT ![t].pc = "pg_body"]
    /\ UNCHANGED <<graph, db, ret, qe, maps, seen, mu, handler, run, saver>>

PGAddNodeSavesFirst(t, node) ==
    /\ thr[t].pc = "pg_body"
    /\ LET added == MemAddNode(graph, node)
       IN IF added.err # "ok"
          THEN /\ ret' = Returned("add_node", node.ID, added.err)
               /\ pgmu' = Unlock(pgmu)
               /\ thr' = AfterUnlock(thr, pgmu, t)
               /\ UNCHANGED graph
          ELSE /\ graph' = added.g
               /\ thr' = [thr EXCEPT ![t].pc = "pg_tx", ![t].op = "add_node",
                                     ![t].node = node]
               /\ UNCHANGED <<ret, pgmu>>
    /\ db' = TxSaveNode(db, node)
    /\ UNCHANGED <<qe, maps, seen, mu, handler, run, saver>>

\* AddNode up to BeginTransaction: the node is added to memory, or the call
\* returns the memory graph's error
PGAddNodeMemory(t, node) ==
    /\ thr[t].pc = "pg_body"
    /\ LET added == MemAddNode(graph, node)
       IN IF added.err # "ok"
          THEN /\ ret' = Returned("add_node", node.ID, added.err)
               /\ pgmu' = Unlock(pgmu)
               /\ thr' = AfterUnlock(thr, pgmu, t)
               /\ UNCHANGED graph
          ELSE /\ graph' = added.g
               /\ thr' = [thr EXCEPT ![t].pc = "pg_tx", ![t].op = "add_node",
                                     ![t].node = node]
               /\ UNCHANGED <<ret, pgmu>>
    /\ UNCHANGED <<db, qe, maps, seen, mu, handler, run, saver>>

\* AddNode from BeginTransaction on: the commit, or the compensating
\* DeleteNode when a step of the backend fails
PGAddNodeTx(t, fail) ==
    /\ thr[t].pc = "pg_tx"
    /\ thr[t].op = "add_node"
    /\ LET node == thr[t].node
       IN IF fail = "none"
          THEN /\ db' = TxSaveNode(db, node)
               /\ ret' = Returned("add_node", node.ID, "ok")
               /\ UNCHANGED graph
          ELSE /\ graph' = MemDeleteNode(graph, node.ID).g
               /\ ret' = Returned("add_node", node.ID, FailureError(fail))
               /\ UNCHANGED db
    /\ pgmu' = Unlock(pgmu)
    /\ thr' = AfterUnlock(thr, pgmu, t)
    /\ UNCHANGED <<qe, maps, seen, mu, handler, run, saver>>

\* DeleteNode up to the middle of the memory graph's DeleteNode: GetNode,
\* BeginTransaction, and the removal of the node's outgoing edges
PGDeleteNodeOutgoing(t, id, fail) ==
    /\ thr[t].pc = "pg_body"
    /\ fail \in {"none", "begin"}
    /\ LET got == MemGetNode(graph, id)
       IN IF got.err # "ok" \/ fail = "begin"
          THEN /\ ret' = Returned("delete_node", id,
                                  IF got.err # "ok" THEN got.err
                                  ELSE "failed to begin transaction")
               /\ pgmu' = Unlock(pgmu)
               /\ thr' = AfterUnlock(thr, pgmu, t)
               /\ UNCHANGED graph
          ELSE /\ graph' = DeleteNodeOutgoing(graph, id)
               /\ thr' = [thr EXCEPT ![t].pc = "pg_del_in",
                                     ![t].op = "delete_node",
                                     ![t].node = got.node]
               /\ UNCHANGED <<ret, pgmu>>
    /\ UNCHANGED <<db, qe, maps, seen, mu, handler, run, saver>>

\* The rest of the memory graph's DeleteNode: the incoming edges, the type
\* index and the node (the outgoing bucket is gone, so that part of
\* MemDeleteNode changes nothing)
PGDeleteNodeIncoming(t) ==
    /\ thr[t].pc = "pg_del_in"
    /\ graph' = MemDeleteNode(graph, thr[t].node.ID).g
    /\ thr' = [thr EXCEPT ![t].pc = "pg_tx"]
    /\ UNCHANGED <<db, ret, qe, maps, seen, mu, pgmu, handler, run, saver>>

\* DeleteNode from tx.DeleteNode on: the commit, or the compensating AddNode
PGDeleteNodeTx(t, fail) ==
    /\ thr[t].pc = "pg_tx"
    /\ thr[t].op = "delete_node"
    /\ fail \in {"none", "persist", "commit"}
    /\ LET node == thr[t].node
       IN IF fail = "none"
          THEN /\ db' = TxDeleteNode(db, node.ID)
               /\ ret' = Returned("delete_node", node.ID, "ok")
               /\ UNCHANGED graph
          ELSE /\ graph' = MemAddNode(graph, node).g
               /\ ret' = Returned("delete_node", node.ID, FailureError(fail))
               /\ UNCHANGED db
    /\ pgmu' = Unlock(pgmu)
    /\ thr' = AfterUnlock(thr, pgmu, t)
    /\ UNCHANGED <<qe, maps, seen, mu, handler, run, saver>>

\* AddEdge up to BeginTransaction
PGAddEdgeMemory(t, edge) ==
    /\ thr[t].pc = "pg_body"
    /\ LET added == MemAddEdge(graph, edge)
           key == makeEdgeKey(edge.From, edge.To, edge.Label)
       IN IF added.err # "ok"
          THEN /\ ret' = Returned("add_edge", key, added.err)
               /\ pgmu' = Unlock(pgmu)
               /\ thr' = AfterUnlock(thr, pgmu, t)
               /\ UNCHANGED graph
          ELSE /\ graph' = added.g
               /\ thr' = [thr EXCEPT ![t].pc = "pg_tx", ![t].op = "add_edge",
                                     ![t].edge = edge]
               /\ UNCHANGED <<ret, pgmu>>
    /\ UNCHANGED <<db, qe, maps, seen, mu, handler, run, saver>>

\* AddEdge from BeginTransaction on: the commit, or the compensating
\* DeleteEdge
PGAddEdgeTx(t, fail) ==
    /\ thr[t].pc = "pg_tx"
    /\ thr[t].op = "add_edge"
    /\ LET edge == thr[t].edge
           key == makeEdgeKey(edge.From, edge.To, edge.Label)
       IN IF fail = "none"
          THEN /\ db' = TxSaveEdge(db, edge)
               /\ ret' = Returned("add_edge", key, "ok")
               /\ UNCHANGED graph
          ELSE /\ graph' = MemDeleteEdge(graph, edge.From, edge.To,
                                         edge.Label).g
               /\ ret' = Returned("add_edge", key, FailureError(fail))
               /\ UNCHANGED db
    /\ pgmu' = Unlock(pgmu)
    /\ thr' = AfterUnlock(thr, pgmu, t)
    /\ UNCHANGED <<qe, maps, seen, mu, handler, run, saver>>

\* DeleteEdge up to tx.DeleteEdge: GetEdge, BeginTransaction and the memory
\* graph's DeleteEdge
PGDeleteEdgeMemory(t, edge, fail) ==
    /\ thr[t].pc = "pg_body"
    /\ fail \in {"none", "begin"}
    /\ LET got == MemGetEdge(graph, edge.From, edge.To, edge.Label)
           key == makeEdgeKey(edge.From, edge.To, edge.Label)
       IN IF got.err # "ok" \/ fail = "begin"
          THEN /\ ret' = Returned("delete_edge", key,
                                  IF got.err # "ok" THEN got.err
                                  ELSE "failed to begin transaction")
               /\ pgmu' = Unlock(pgmu)
               /\ thr' = AfterUnlock(thr, pgmu, t)
               /\ UNCHANGED graph
          ELSE /\ graph' = MemDeleteEdge(graph, edge.From, edge.To,
                                         edge.Label).g
               /\ thr' = [thr EXCEPT ![t].pc = "pg_tx",
                                     ![t].op = "delete_edge",
                                     ![t].edge = got.edge]
               /\ UNCHANGED <<ret, pgmu>>
    /\ UNCHANGED <<db, qe, maps, seen, mu, handler, run, saver>>

\* DeleteEdge from tx.DeleteEdge on: the commit, or the compensating AddEdge
PGDeleteEdgeTx(t, fail) ==
    /\ thr[t].pc = "pg_tx"
    /\ thr[t].op = "delete_edge"
    /\ fail \in {"none", "persist", "commit"}
    /\ LET edge == thr[t].edge
           key == makeEdgeKey(edge.From, edge.To, edge.Label)
       IN IF fail = "none"
          THEN /\ db' = TxDeleteEdge(db, edge.From, edge.To, edge.Label)
               /\ ret' = Returned("delete_edge", key, "ok")
               /\ UNCHANGED graph
          ELSE /\ graph' = MemAddEdge(graph, edge).g
               /\ ret' = Returned("delete_edge", key, FailureError(fail))
               /\ UNCHANGED db
    /\ pgmu' = Unlock(pgmu)
    /\ thr' = AfterUnlock(thr, pgmu, t)
    /\ UNCHANGED <<qe, maps, seen, mu, handler, run, saver>>

NextPG ==
    \/ \E t \in Threads : PGCallRead(t)
    \/ \E t \in Threads : PGCallWrite(t)
    \/ \E t \in Threads : PGRLock(t)
    \/ \E t \in Threads, id \in NodeIds : PGGetNode(t, id)
    \/ \E t \in Threads, edge \in PGEdgeInputs : PGGetEdge(t, edge)
    \/ \E t \in Threads : PGLock(t)
    \/ \E t \in Threads : PGLockAcquired(t)
    \/ \E t \in Threads, node \in LockNodeInputs : PGAddNodeMemory(t, node)
    \/ \E t \in Threads, fail \in Failures : PGAddNodeTx(t, fail)
    \/ \E t \in Threads, id \in NodeIds, fail \in Failures :
            PGDeleteNodeOutgoing(t, id, fail)
    \/ \E t \in Threads : PGDeleteNodeIncoming(t)
    \/ \E t \in Threads, fail \in Failures : PGDeleteNodeTx(t, fail)
    \/ \E t \in Threads, edge \in PGEdgeInputs : PGAddEdgeMemory(t, edge)
    \/ \E t \in Threads, fail \in Failures : PGAddEdgeTx(t, fail)
    \/ \E t \in Threads, edge \in PGEdgeInputs, fail \in Failures :
            PGDeleteEdgeMemory(t, edge, fail)
    \/ \E t \in Threads, fail \in Failures : PGDeleteEdgeTx(t, fail)

SpecPG == InitMem /\ [][NextPG]_vars

(***************************************************************************)
(* One caller's mutations on the PersistentGraph, step by step, with the   *)
(* ids, endpoints and labels the memory graph refuses among the inputs     *)
(***************************************************************************)
Writer == "t3"
WriteNodeInputs == {Node(id, "t", NilProps) : id \in IdInputs}
WriteEdgeInputs ==
    {Edge(f, t, "l", NilProps) : f \in IdInputs, t \in IdInputs}
        \cup {Edge("a", "b", "", NilProps)}

NextWrites ==
    \/ PGCallWrite(Writer)
    \/ PGLock(Writer)
    \/ PGLockAcquired(Writer)
    \/ \E node \in WriteNodeInputs : PGAddNodeMemory(Writer, node)
    \/ \E fail \in Failures : PGAddNodeTx(Writer, fail)
    \/ \E id \in IdInputs, fail \in Failures :
            PGDeleteNodeOutgoing(Writer, id, fail)
    \/ PGDeleteNodeIncoming(Writer)
    \/ \E fail \in Failures : PGDeleteNodeTx(Writer, fail)
    \/ \E edge \in WriteEdgeInputs : PGAddEdgeMemory(Writer, edge)
    \/ \E fail \in Failures : PGAddEdgeTx(Writer, fail)
    \/ \E edge \in WriteEdgeInputs, fail \in Failures :
            PGDeleteEdgeMemory(Writer, edge, fail)
    \/ \E fail \in Failures : PGDeleteEdgeTx(Writer, fail)

SpecWrites == InitMem /\ [][NextWrites]_vars

(***************************************************************************)
(* Callers that add the same node, or the same edge, at the same time:     *)
(* each calls once, AddNode/AddEdge directly or through                    *)
(* Operations.CreateNode/CreateEdge, and keeps the error it got.  AddNode  *)
(* and AddEdge are split between their checks and their stores.            *)
(***************************************************************************)
RaceNodes == {Node("b", "t", props) : props \in {NilProps, SomeProps}}
RaceEdges == {Edge("a", "a", "l", props) : props \in {NilProps, SomeProps}}

InitRace ==
    /\ graph = WithNodes(NewMemoryGraph, {"a"})
    /\ db = EmptyDB
    /\ ret = Returned("new", "", "ok")
    /\ qe = IdleQuery
    /\ InitConc

\* The caller's return, with the error it got
RaceReturned(threads, t, err) ==
    [threads EXCEPT ![t] = [thr[t] EXCEPT !.pc = "returned", !.err = err]]

RaceCallAddNode(t, node) ==
    /\ thr[t].pc = "idle"
    /\ thr' = [thr EXCEPT ![t].pc = "w_lock", ![t].op = "add_node",
                          ![t].node = node]
    /\ UNCHANGED <<graph, db, ret, qe, maps, seen, mu, pgmu, handler, run, saver>>

RaceCallCreateNode(t, node) ==
    /\ thr[t].pc = "idle"
    /\ thr' = [thr EXCEPT ![t].pc = "cn_rlock", ![t].op = "add_node",
                          ![t].node = node]
    /\ UNCHANGED <<graph, db, ret, qe, maps, seen, mu, pgmu, handler, run, saver>>

RaceCallAddEdge(t, edge) ==
    /\ thr[t].pc = "idle"
    /\ thr' = [thr EXCEPT ![t].pc = "w_lock", ![t].op = "add_edge",
                          ![t].edge = edge]
    /\ UNCHANGED <<graph, db, ret, qe, maps, seen, mu, pgmu, handler, run, saver>>

RaceCallCreateEdge(t, edge) ==
    /\ thr[t].pc = "idle"
    /\ thr' = [thr EXCEPT ![t].pc = "ce_rlock_from", ![t].op = "add_edge",
                          ![t].edge = edge]
    /\ UNCHANGED <<graph, db, ret, qe, maps, seen, mu, pgmu, handler, run, saver>>

\* g.mu.RLock() of the NodeExists and GetEdge that CreateNode and CreateEdge
\* call before they add
RaceRLock(t) ==
    /\ thr[t].pc \in {"cn_rlock", "ce_rlock_from", "ce_rlock_to", "ce_rlock_get"}
    /\ ~thr[t].blocked
    /\ IF RLockAdmits(mu)
       THEN /\ mu' = RLockAcquire(mu, t)
            /\ thr' = [thr EXCEPT ![t].pc = AfterRLock(@)]
       ELSE /\ mu' = RLockBlock(mu, t)
            /\ thr' = [thr EXCEPT ![t].blocked = TRUE]
    /\ UNCHANGED <<graph, db, ret, qe, maps, seen, pgmu, handler, run, saver>>

\* operations.go:26-30: CreateNode returns ErrNodeExists or goes on to AddNode
CreateNodeExists(t) ==
    /\ thr[t].pc = "cn_exists"
    /\ mu' = RUnlock(mu, t)
    /\ thr' = IF MemNodeExists(graph, thr[t].node.ID)
              THEN RaceReturned(thr, t, "ErrNodeExists")
              ELSE [thr EXCEPT ![t].pc = "w_lock"]
    /\ UNCHANGED <<graph, db, ret, qe, maps, seen, pgmu, handler, run, saver>>

\* operations.go:40-42
CreateEdgeFromExists(t) ==
    /\ thr[t].pc = "ce_from"
    /\ mu' = RUnlock(mu, t)
    /\ thr' = IF MemNodeExists(graph, thr[t].edge.From)
              THEN [thr EXCEPT ![t].pc = "ce_rlock_to"]
              ELSE RaceReturned(thr, t, "from node does not exist")
    /\ UNCHANGED <<graph, db, ret, qe, maps, seen, pgmu, handler, run, saver>>

\* operations.go:44-46
CreateEdgeToExists(t) ==
    /\ thr[t].pc = "ce_to"
    /\ mu' = RUnlock(mu, t)
    /\ thr' = IF MemNodeExists(graph, thr[t].edge.To)
              THEN [thr EXCEPT ![t].pc = "ce_rlock_get"]
              ELSE RaceReturned(thr, t, "to node does not exist")
    /\ UNCHANGED <<graph, db, ret, qe, maps, seen, pgmu, handler, run, saver>>

\* operations.go:49-53
CreateEdgeGetEdge(t) ==
    /\ thr[t].pc = "ce_get"
    /\ mu' = RUnlock(mu, t)
    /\ LET e == thr[t].edge
       IN thr' = IF MemGetEdge(graph, e.From, e.To, e.Label).err = "ok"
                 THEN RaceReturned(thr, t, "ErrEdgeExists")
                 ELSE [thr EXCEPT ![t].pc = "w_lock"]
    /\ UNCHANGED <<graph, db, ret, qe, maps, seen, pgmu, handler, run, saver>>

\* g.mu.Lock() of AddNode and AddEdge, in its two stages
RaceLock(t) ==
    /\ thr[t].pc = "w_lock"
    /\ LockAdmits(mu)
    /\ mu' = LockAnnounce(mu, t)
    /\ thr' = [thr EXCEPT ![t].pc = "w_wait"]
    /\ UNCHANGED <<graph, db, ret, qe, maps, seen, pgmu, handler, run, saver>>

RaceLockAcquired(t) ==
    /\ thr[t].pc = "w_wait"
    /\ ReadersDrained(mu)
    /\ mu' = LockAcquire(mu)
    /\ thr' = [thr EXCEPT ![t].pc = "w_body"]
    /\ UNCHANGED <<graph, db, ret, qe, maps, seen, pgmu, handler, run, saver>>

\* memory.go:44-50: the checks of AddNode under the lock
AddNodeCheck(t) ==
    /\ thr[t].pc = "w_body"
    /\ thr[t].op = "add_node"
    /\ LET r == MemAddNode(graph, thr[t].node)
       IN IF r.err # "ok"
          THEN /\ mu' = Unlock(mu)
               /\ thr' = RaceReturned(AfterUnlock(thr, mu, t), t, r.err)
          ELSE /\ thr' = [thr EXCEPT ![t].pc = "w_put"]
               /\ UNCHANGED mu
    /\ UNCHANGED <<graph, db, ret, qe, maps, seen, pgmu, handler, run, saver>>

\* memory.go:52-68: the stores of AddNode and its return
AddNodePut(t) ==
    /\ thr[t].pc = "w_put"
    /\ thr[t].op = "add_node"
    /\ graph' = AddNodeStore(graph, thr[t].node)
    /\ mu' = Unlock(mu)
    /\ thr' = RaceReturned(AfterUnlock(thr, mu, t), t, "ok")
    /\ UNCHANGED <<db, ret, qe, maps, seen, pgmu, handler, run, saver>>

\* memory.go:150-167: the checks of AddEdge under the lock
AddEdgeCheck(t) ==
    /\ thr[t].pc = "w_body"
    /\ thr[t].op = "add_edge"
    /\ LET r == MemAddEdge(graph, thr[t].edge)
       IN IF r.err # "ok"
          THEN /\ mu' = Unlock(mu)
               /\ thr' = RaceReturned(AfterUnlock(thr, mu, t), t, r.err)
          ELSE /\ thr' = [thr EXCEPT ![t].pc = "w_put"]
               /\ UNCHANGED mu
    /\ UNCHANGED <<graph, db, ret, qe, maps, seen, pgmu, handler, run, saver>>

\* memory.go:169-188: the stores of AddEdge and its return
AddEdgePut(t) ==
    /\ thr[t].pc = "w_put"
    /\ thr[t].op = "add_edge"
    /\ graph' = AddEdgeStore(graph, thr[t].edge)
    /\ mu' = Unlock(mu)
    /\ thr' = RaceReturned(AfterUnlock(thr, mu, t), t, "ok")
    /\ UNCHANGED <<db, ret, qe, maps, seen, pgmu, handler, run, saver>>

NextRace ==
    \/ \E t \in Threads, node \in RaceNodes : RaceCallAddNode(t, node)
    \/ \E t \in Threads, node \in RaceNodes : RaceCallCreateNode(t, node)
    \/ \E t \in Threads, edge \in RaceEdges : RaceCallAddEdge(t, edge)
    \/ \E t \in Threads, edge \in RaceEdges : RaceCallCreateEdge(t, edge)
    \/ \E t \in Threads : RaceRLock(t)
    \/ \E t \in Threads : CreateNodeExists(t)
    \/ \E t \in Threads : CreateEdgeFromExists(t)
    \/ \E t \in Threads : CreateEdgeToExists(t)
    \/ \E t \in Threads : CreateEdgeGetEdge(t)
    \/ \E t \in Threads : RaceLock(t)
    \/ \E t \in Threads : RaceLockAcquired(t)
    \/ \E t \in Threads : AddNodeCheck(t)
    \/ \E t \in Threads : AddNodePut(t)
    \/ \E t \in Threads : AddEdgeCheck(t)
    \/ \E t \in Threads : AddEdgePut(t)

SpecRace == InitRace /\ [][NextRace]_vars

(***************************************************************************)
(* Edges between nodes whose ids, and with labels, that contain ':'.       *)
(* Node.Validate and Edge.Validate accept any non-empty string.            *)
(***************************************************************************)
KeyIds == {"a", "b", "a:b"}
KeyTriples ==
    {<<"a:b", "b", "l">>, <<"a", "b", "b:l">>, <<"a", "b", "l">>,
     <<"b", "a", "l">>, <<"a:b", "a:b", "b:l">>}

InitKeys ==
    /\ graph = WithNodes(NewMemoryGraph, KeyIds)
    /\ db = EmptyDB
    /\ ret = Returned("new", <<>>, "ok")
    /\ qe = IdleQuery
    /\ InitConc

KeyAddEdge(from, to, label) ==
    LET r == PersistentAddEdge(graph, db, Edge(from, to, label, NilProps), "none")
    IN /\ Cardinality(DOMAIN graph.edges) < MaxEdges
       /\ graph' = r.g
       /\ db' = r.db
       /\ ret' = Returned("add_edge", <<from, to, label>>, r.err)
       /\ UNCHANGED <<qe, conc>>

KeyGetEdge(from, to, label) ==
    /\ ret' = Returned("get_edge", <<from, to, label>>,
                       MemGetEdge(graph, from, to, label).err)
    /\ UNCHANGED <<graph, db, qe, conc>>

KeyDeleteEdge(from, to, label) ==
    LET r == PersistentDeleteEdge(graph, db, from, to, label, "none")
    IN /\ graph' = r.g
       /\ db' = r.db
       /\ ret' = Returned("delete_edge", <<from, to, label>>, r.err)
       /\ UNCHANGED <<qe, conc>>

NextKeys ==
    \/ \E e \in KeyTriples : KeyAddEdge(e[1], e[2], e[3])
    \/ \E e \in KeyTriples : KeyGetEdge(e[1], e[2], e[3])
    \/ \E e \in KeyTriples : KeyDeleteEdge(e[1], e[2], e[3])

SpecKeys == InitKeys /\ [][NextKeys]_vars

(***************************************************************************)
(* A caller and the props mappings.  A Go map value is a reference: Props  *)
(* is here [isNil, kv] with kv the address in maps of the mapping, and     *)
(* copying a Node struct copies the address.  thr[Caller].node is the Node *)
(* value the caller holds.                                                 *)
(***************************************************************************)
Caller == "t1"
MaxMaps == 3
PropValues == {"v", "w"}

MapRef(addr) == [isNil |-> FALSE, kv |-> addr]

\* The caller builds a Node value, with nil props or with a new mapping
CallerNewNode(id, withProps) ==
    /\ Len(maps) < MaxMaps
    /\ maps' = IF withProps THEN Append(maps, [name |-> "v"]) ELSE maps
    /\ thr' = [thr EXCEPT ![Caller].node =
                  Node(id, "t", IF withProps THEN MapRef(Len(maps) + 1)
                                ELSE NilProps)]
    /\ ret' = Returned("new_node", id, "ok")
    /\ UNCHANGED <<graph, db, qe, seen, mu, pgmu, handler, run, saver>>

\* AddNode of the Node the caller holds: the stored copy keeps the caller's
\* mapping, or a new empty one when the caller's is nil (memory.go:53-58)
AliasAddNode ==
    LET node == thr[Caller].node
        arg == IF node.Props.isNil
               THEN [node EXCEPT !.Props = MapRef(Len(maps) + 1)] ELSE node
        r == MemAddNode(graph, arg)
    IN /\ Len(maps) < MaxMaps
       /\ graph' = r.g
       /\ maps' = IF r.err = "ok" /\ node.Props.isNil
                  THEN Append(maps, EmptyMap) ELSE maps
       /\ ret' = Returned("add_node", node.ID, r.err)
       /\ UNCHANGED <<db, qe, seen, mu, pgmu, thr, handler, run, saver>>

\* GetNode: the caller gets a copy of the stored Node struct (memory.go:85-87)
AliasGetNode(id) ==
    LET r == MemGetNode(graph, id)
    IN /\ thr' = IF r.err = "ok" THEN [thr EXCEPT ![Caller].node = r.node]
                 ELSE thr
       /\ ret' = Returned("get_node", id, r.err)
       /\ UNCHANGED <<graph, db, qe, seen, mu, pgmu, maps, handler, run, saver>>

\* The caller sets an entry of the props of the Node it holds, as
\* Operations.UpdateNode does with the node it got (operations.go:73-75)
CallerSetProp(value) ==
    LET node == thr[Caller].node
    IN /\ ~node.Props.isNil
       /\ maps' = [maps EXCEPT ![node.Props.kv] = MapPut(@, "name", value)]
       /\ ret' = Returned("set_prop", node.ID, "ok")
       /\ UNCHANGED <<graph, db, qe, seen, mu, pgmu, thr, handler, run, saver>>

AliasDeleteNode(id) ==
    LET r == MemDeleteNode(graph, id)
    IN /\ graph' = r.g
       /\ ret' = Returned("delete_node", id, r.err)
       /\ UNCHANGED <<db, qe, conc>>

NextAlias ==
    \/ \E id \in NodeIds, withProps \in BOOLEAN : CallerNewNode(id, withProps)
    \/ AliasAddNode
    \/ \E id \in NodeIds : AliasGetNode(id)
    \/ \E value \in PropValues : CallerSetProp(value)
    \/ \E id \in NodeIds : AliasDeleteNode(id)

SpecAlias == InitMem /\ [][NextAlias]_vars


(***************************************************************************)
(* The query engine on the in-memory graph, one caller.  qe.nodes and      *)
(* qe.edges hold what the last read returned (QueryResult.Nodes, .Edges).  *)
(***************************************************************************)
\* fmt.Errorf("<msg>: %w", err), and errors.Is on the result
Wrap(msg, err) == msg \o ": " \o err
WrapMessages ==
    {"failed to get neighbors", "failed to find paths", "failed to get nodes by type"}
ErrorsIs(err, target) ==
    err = target \/ \E msg \in WrapMessages : err = Wrap(msg, target)

DirectionInputs == {"", "out", "in", "both", "up"}
TypeInputs == {"t", "u", ""}
QNodeInputs ==
    {Node(id, "t", p) : id \in IdInputs, p \in PropsInputs}
        \cup {Node(id, "", NilProps) : id \in IdInputs}
QEdgeInputs ==
    {e \in {Edge(f, t, l, NilProps) : f \in NodeIds, t \in NodeIds, l \in Labels} :
        e.From # e.To}
        \cup {Edge("", "a", "l", NilProps)}
QDirectionInputs == {"", "out", "in", "up"}
QLabelInputs == {"", "l"}
FilterInputs ==
    {EmptyMap, [type |-> "t"], [type |-> "u"], [name |-> "v"],
     [type |-> "t", name |-> "v"], [type |-> "t", name |-> "w"],
     [type |-> "t", name |-> ""]}
NbNodeInputs == {Node(id, "t", NilProps) : id \in IdInputs}
NeighborsQueryInputs ==
    {[Type |-> "neighbors", Node |-> n, Direction |-> d, Label |-> l,
      Filters |-> EmptyMap] :
        n \in IdInputs, d \in QDirectionInputs, l \in QLabelInputs}
FindQueryInputs ==
    {[Type |-> "find", Node |-> "", Direction |-> "", Label |-> "",
      Filters |-> f] : f \in FilterInputs}
    \cup {[Type |-> "", Node |-> "a", Direction |-> "", Label |-> "",
           Filters |-> EmptyMap]}

NodesOf(g, ids) == {g.nodes[id] : id \in ids}

\* filterNeighborsByLabel returns the neighbors it is given
filterNeighborsByLabel(nodeID, neighbors, label, direction) == neighbors

queryNeighbors(g, query) ==
    IF query.Node = ""
    THEN [nodes |-> {}, err |-> "node ID is required for neighbors query"]
    ELSE LET direction == IF query.Direction = "" THEN "both"
                          ELSE query.Direction
             got == MemGetNeighbors(g, query.Node, direction)
             neighbors == NodesOf(g, got.ids)
         IN IF got.err # "ok"
            THEN [nodes |-> {}, err |-> Wrap("failed to get neighbors", got.err)]
            ELSE IF query.Label # ""
            THEN [nodes |-> filterNeighborsByLabel(query.Node, neighbors,
                                                   query.Label, direction),
                  err |-> "ok"]
            ELSE [nodes |-> neighbors, err |-> "ok"]

\* node.Props[key]: a key the map lacks reads as the empty string
PropAt(props, key) == IF key \in DOMAIN props.kv THEN props.kv[key] ELSE ""

\* A filter that looks at the type only
filterNodesByTypeOnly(nodes, filters) ==
    {node \in nodes : "type" \in DOMAIN filters => node.Type = filters["type"]}

filterNodesByProperties(nodes, filters) ==
    {node \in nodes :
        \A key \in DOMAIN filters :
            IF key = "type" THEN node.Type = filters[key]
            ELSE ~node.Props.isNil /\ PropAt(node.Props, key) = filters[key]}

queryFind(g, query) ==
    IF DOMAIN query.Filters = {}
    THEN [nodes |-> {}, err |-> "filters are required for find queries"]
    ELSE IF "type" \in DOMAIN query.Filters
    THEN LET got == MemGetNodesByType(g, query.Filters["type"])
         IN IF got.err # "ok"
            THEN [nodes |-> {},
                  err |-> Wrap("failed to get nodes by type", got.err)]
            ELSE [nodes |-> filterNodesByProperties(got.nodes, query.Filters),
                  err |-> "ok"]
    ELSE [nodes |-> {},
          err |-> "property-based search without type filter not yet implemented"]

\* QueryEngine.Query for the kinds that run in one step; a paths query runs
\* as QueryPaths and the findPaths steps
QueryDispatch(g, query) ==
    IF query.Type = "neighbors" THEN queryNeighbors(g, query)
    ELSE IF query.Type = "find" THEN queryFind(g, query)
    ELSE [nodes |-> {}, err |-> "unknown query type"]

CallerIdle == qe.pc \in {"idle", "done"}

Close ==
    /\ graph' = [graph EXCEPT !.closed = TRUE]
    /\ ret' = Returned("close", "", "ok")
    /\ UNCHANGED <<db, qe, conc>>

\* A read returns its slice in the order the range over the map gave
ReadReturns(op, arg, nodes, edges, err) ==
    /\ \E order \in Orders(nodes) :
          qe' = [qe EXCEPT !.nodes = order, !.edges = edges]
    /\ ret' = Returned(op, arg, err)
    /\ UNCHANGED <<graph, db, conc>>

GetNode(id) ==
    LET got == MemGetNode(graph, id)
    IN ReadReturns("get_node", id,
                   IF got.err = "ok" THEN {got.node} ELSE {}, <<>>, got.err)

GetEdge(from, to, label) ==
    LET got == MemGetEdge(graph, from, to, label)
    IN ReadReturns("get_edge", makeEdgeKey(from, to, label), {},
                   IF got.err = "ok" THEN <<got.edge>> ELSE <<>>, got.err)

GetNeighbors(nodeID, direction) ==
    LET got == MemGetNeighbors(graph, nodeID, direction)
    IN ReadReturns("neighbors", [Node |-> nodeID, Direction |-> direction],
                   NodesOf(graph, got.ids), <<>>, got.err)

GetNodesByType(nodeType) ==
    LET got == MemGetNodesByType(graph, nodeType)
    IN ReadReturns("nodes_by_type", nodeType, got.nodes, <<>>, got.err)

Query(query) ==
    LET got == QueryDispatch(graph, query)
    IN ReadReturns("query", query, got.nodes, <<>>, got.err)

NextNeighbors ==
    \/ \E node \in NbNodeInputs : AddNode(node)
    \/ \E id \in IdInputs : DeleteNode(id)
    \/ \E edge \in QEdgeInputs : AddEdge(edge)
    \/ \E edge \in QEdgeInputs : DeleteEdge(edge.From, edge.To, edge.Label)
    \/ \E id \in IdInputs, d \in DirectionInputs \ {""} : GetNeighbors(id, d)
    \/ \E query \in NeighborsQueryInputs : Query(query)

SpecNeighbors == InitMem /\ [][NextNeighbors]_vars

NextFind ==
    \/ \E node \in QNodeInputs : AddNode(node)
    \/ \E id \in IdInputs : DeleteNode(id)
    \/ \E query \in FindQueryInputs : Query(query)

SpecFind == InitMem /\ [][NextFind]_vars

\* The calls of one caller on a graph that may have been closed
ClosedEdgeInputs == {Edge("a", "b", "l", NilProps), Edge("", "a", "l", NilProps)}
ClosedQueryInputs ==
    {q \in NeighborsQueryInputs : q.Direction = "out" /\ q.Label = ""}
        \cup {q \in FindQueryInputs : q.Filters \in {EmptyMap, [type |-> "t"]}}
ClosedDepthInputs == {0, MaxDepthCeiling + 1}

NextClosed ==
    \/ CallerIdle /\ \E node \in NbNodeInputs : AddNode(node)
    \/ CallerIdle /\ \E id \in IdInputs : DeleteNode(id)
    \/ CallerIdle /\ \E edge \in ClosedEdgeInputs : AddEdge(edge)
    \/ CallerIdle /\ \E edge \in ClosedEdgeInputs :
                        DeleteEdge(edge.From, edge.To, edge.Label)
    \/ CallerIdle /\ Close
    \/ CallerIdle /\ \E id \in IdInputs : GetNode(id)
    \/ CallerIdle /\ \E edge \in ClosedEdgeInputs :
                        GetEdge(edge.From, edge.To, edge.Label)
    \/ CallerIdle /\ \E id \in IdInputs, d \in {"out", "up"} : GetNeighbors(id, d)
    \/ CallerIdle /\ \E t \in TypeInputs : GetNodesByType(t)
    \/ CallerIdle /\ \E query \in ClosedQueryInputs : Query(query)
    \/ \E from \in IdInputs, to \in NodeIds, maxDepth \in ClosedDepthInputs :
          QueryPaths(from, to, maxDepth)
    \/ FindPathsFromExists
    \/ FindPathsToExists
    \/ FindPathsSelf
    \/ FindPathsDequeue
    \/ FindPathsNeighbor
    \/ BuildPathNodes

SpecClosed == InitMem /\ [][NextClosed]_vars

\* Writes and reads of one caller; ret.arg keeps the node or edge that was
\* passed to the add
ReadEdgeInputs ==
    {Edge("a", "b", "l", p) : p \in PropsInputs}
        \cup {Edge("a", "b", "m", NilProps), Edge("b", "a", "l", NilProps),
              Edge("", "a", "l", NilProps)}

AddNodeArg(node) ==
    LET r == MemAddNode(graph, node)
    IN /\ graph' = r.g
       /\ ret' = Returned("add_node", node, r.err)
       /\ UNCHANGED <<db, qe, conc>>

AddEdgeArg(edge) ==
    LET r == MemAddEdge(graph, edge)
    IN /\ Cardinality(DOMAIN graph.edges) < MaxEdges
       /\ graph' = r.g
       /\ ret' = Returned("add_edge", edge, r.err)
       /\ UNCHANGED <<db, qe, conc>>

NextReads ==
    \/ \E node \in PNodeInputs : AddNodeArg(node)
    \/ \E id \in IdInputs : DeleteNode(id)
    \/ \E edge \in ReadEdgeInputs : AddEdgeArg(edge)
    \/ \E edge \in ReadEdgeInputs : DeleteEdge(edge.From, edge.To, edge.Label)
    \/ \E id \in IdInputs : GetNode(id)
    \/ \E edge \in ReadEdgeInputs : GetEdge(edge.From, edge.To, edge.Label)

SpecReads == InitMem /\ [][NextReads]_vars

(***************************************************************************)
(* The mcp Handler: one JSON-RPC request per line, one response per        *)
(* request.  A JSON value is a string s, a number n/10 or an object o.      *)
(***************************************************************************)
ParseError == -32700
InvalidRequest == -32600
MethodNotFound == -32601
InvalidParams == -32602
InternalError == -32603

Nil == [kind |-> "nil"]
JString(s) == [kind |-> "string", s |-> s]
JNumber(tenths) == [kind |-> "number", n |-> tenths]
JObject(m) == [kind |-> "object", o |-> m]

\* int(f) for a float64 f: the fraction is dropped
IntOf(tenths) == IF tenths >= 0 THEN tenths \div 10 ELSE -((-tenths) \div 10)

Request(method, params) ==
    [valid |-> TRUE, jsonrpc |-> "2.0", id |-> JNumber(10), method |-> method,
     params |-> params]

NewJSONRPCResponse(id, result) ==
    [kind |-> "response", ID |-> id, Result |-> result, Error |-> Nil]

NewJSONRPCErrorResponse(id, code, message) ==
    [kind |-> "response", ID |-> id, Result |-> Nil,
     Error |-> [kind |-> "error", Code |-> code, Message |-> message]]

\* json.Marshal of a CallToolResponse: isError is left out when false
CallToolResponseJSON(result) ==
    [content |-> result.Content, hasIsError |-> result.IsError,
     isError |-> result.IsError]

\* json.Marshal of an InitializeResponse: listChanged is left out when false
InitializeResponseJSON(result) ==
    [protocolVersion |-> result.ProtocolVersion,
     capabilities |->
        [tools |-> [hasListChanged |-> result.Capabilities.Tools.ListChanged,
                    listChanged |-> result.Capabilities.Tools.ListChanged]],
     serverInfo |-> [name |-> result.ServerInfo.Name,
                     version |-> result.ServerInfo.Version]]

\* JSONRPCResponse.ToJSON: id, result and error are left out when nil
ToJSON(response) ==
    [jsonrpc |-> "2.0",
     hasId |-> response.ID.kind # "nil",
     id |-> response.ID,
     hasResult |-> response.Result.kind # "nil",
     result |-> IF response.Result.kind = "call"
                THEN CallToolResponseJSON(response.Result)
                ELSE IF response.Result.kind = "initialize"
                THEN InitializeResponseJSON(response.Result)
                ELSE response.Result,
     hasError |-> response.Error.kind # "nil",
     error |-> response.Error]

\* ParseJSONRPCRequest: the line is JSON, jsonrpc is "2.0", method is given
ParseJSONRPCRequest(line) ==
    line.valid /\ line.jsonrpc = "2.0" /\ line.method # ""

\* A lenient reading that turns a number into its decimal string
StringArgCoerced(args, key) ==
    IF key \in DOMAIN args /\ args[key].kind = "string"
    THEN [ok |-> TRUE, v |-> args[key].s]
    ELSE IF key \in DOMAIN args /\ args[key].kind = "number"
    THEN [ok |-> TRUE, v |-> ToString(IntOf(args[key].n))]
    ELSE [ok |-> FALSE, v |-> ""]

\* args[key].(string)
StringArg(args, key) ==
    IF key \in DOMAIN args /\ args[key].kind = "string"
    THEN [ok |-> TRUE, v |-> args[key].s]
    ELSE [ok |-> FALSE, v |-> ""]

\* The props of add_node and add_edge: the string values of args["props"]
PropsArg(args) ==
    IF "props" \in DOMAIN args /\ args["props"].kind = "object"
    THEN LET raw == args["props"].o
             keys == {k \in DOMAIN raw : raw[k].kind = "string"}
         IN [isNil |-> FALSE, kv |-> [k \in keys |-> raw[k].s]]
    ELSE NoProps

TextResult(text) ==
    [kind |-> "call", Content |-> << [Type |-> "text", Text |-> text] >>,
     IsError |-> FALSE]

\* handleToolsCall: the result for a tool that returned an error,
\* fmt.Sprintf("Error: %s", err.Error())
ToolErrorResult(err) ==
    [kind |-> "call",
     Content |-> << [Type |-> "text", Text |-> <<"Error: ", err>>] >>,
     IsError |-> TRUE]

\* What a tool adapter returns: the graph afterwards, the error or "ok", the
\* head of its success text and the nodes the text then lists
Executed(g, err, text, nodes) ==
    [g |-> g, err |-> err, text |-> text, nodes |-> nodes]

executeAddNode(g, args) ==
    LET id == StringArg(args, "id")
        nodeType == StringArg(args, "type").v
        r == MemAddNode(g, Node(id.v, nodeType, PropsArg(args)))
    IN IF ~id.ok \/ id.v = ""
       THEN Executed(g, "id is required and must be a string", <<>>, {})
       ELSE Executed(r.g, r.err,
                     <<"Successfully added node", id.v, nodeType>>, {})

\* The from, to and label checks of executeAddEdge and executeDeleteEdge
EdgeArgsError(args) ==
    LET from == StringArg(args, "from")
        to == StringArg(args, "to")
        label == StringArg(args, "label")
    IN IF ~from.ok \/ from.v = "" THEN "from is required and must be a string"
       ELSE IF ~to.ok \/ to.v = "" THEN "to is required and must be a string"
       ELSE IF ~label.ok \/ label.v = ""
       THEN "label is required and must be a string"
       ELSE "ok"

executeAddEdge(g, args) ==
    LET from == StringArg(args, "from").v
        to == StringArg(args, "to").v
        label == StringArg(args, "label").v
        r == MemAddEdge(g, Edge(from, to, label, PropsArg(args)))
    IN IF EdgeArgsError(args) # "ok"
       THEN Executed(g, EdgeArgsError(args), <<>>, {})
       ELSE Executed(r.g, r.err,
                     <<"Successfully added edge", from, to, label>>, {})

executeDeleteNode(g, args) ==
    LET id == StringArg(args, "id")
        r == MemDeleteNode(g, id.v)
    IN IF ~id.ok \/ id.v = ""
       THEN Executed(g, "id is required and must be a string", <<>>, {})
       ELSE Executed(r.g, r.err, <<"Successfully deleted node", id.v>>, {})

executeDeleteEdge(g, args) ==
    LET from == StringArg(args, "from").v
        to == StringArg(args, "to").v
        label == StringArg(args, "label").v
        r == MemDeleteEdge(g, from, to, label)
    IN IF EdgeArgsError(args) # "ok"
       THEN Executed(g, EdgeArgsError(args), <<>>, {})
       ELSE Executed(r.g, r.err,
                     <<"Successfully deleted edge", from, to, label>>, {})

executeQueryNeighbors(g, args) ==
    LET node == StringArg(args, "node")
        direction == StringArg(args, "direction").v
        query == [Type |-> "neighbors", Node |-> node.v,
                  Direction |-> IF direction = "" THEN "both" ELSE direction,
                  Label |-> StringArg(args, "label").v, Filters |-> EmptyMap]
        got == QueryDispatch(g, query)
    IN IF ~node.ok \/ node.v = ""
       THEN Executed(g, "node is required and must be a string", <<>>, {})
       ELSE Executed(g, got.err, <<"Found neighbors for node", node.v>>,
                     got.nodes)

executeQueryFind(g, args) ==
    LET nodeType == StringArg(args, "type").v
        props == PropsArg(args).kv
        filters == IF nodeType # "" THEN MapPut(props, "type", nodeType)
                   ELSE props
        query == [Type |-> "find", Node |-> "", Direction |-> "",
                  Label |-> "", Filters |-> filters]
        got == QueryDispatch(g, query)
    IN IF DOMAIN filters = {}
       THEN Executed(g, "at least one filter (type or props) is required",
                     <<>>, {})
       ELSE Executed(g, got.err, <<"Found nodes matching criteria">>,
                     got.nodes)

\* executeQueryPaths: the from and to checks
PathsArgsError(args) ==
    LET from == StringArg(args, "from")
        to == StringArg(args, "to")
    IN IF ~from.ok \/ from.v = "" THEN "from is required and must be a string"
       ELSE IF ~to.ok \/ to.v = "" THEN "to is required and must be a string"
       ELSE "ok"

\* executeQueryPaths: Query.MaxDepth, 4 unless max_depth is a number
PathsMaxDepth(args) ==
    IF "max_depth" \in DOMAIN args /\ args["max_depth"].kind = "number"
    THEN IntOf(args["max_depth"].n)
    ELSE 4

ToolNames ==
    <<"add_node", "add_edge", "delete_node", "delete_edge", "query_neighbors",
      "query_paths", "query_find">>

\* executeTool for the tools that return within the step; query_paths with
\* valid from and to goes on to graph.Query
executeTool(g, toolName, args) ==
    IF toolName = "add_node" THEN executeAddNode(g, args)
    ELSE IF toolName = "add_edge" THEN executeAddEdge(g, args)
    ELSE IF toolName = "delete_node" THEN executeDeleteNode(g, args)
    ELSE IF toolName = "delete_edge" THEN executeDeleteEdge(g, args)
    ELSE IF toolName = "query_neighbors" THEN executeQueryNeighbors(g, args)
    ELSE IF toolName = "query_paths"
    THEN Executed(g, PathsArgsError(args), <<>>, {})
    ELSE IF toolName = "query_find" THEN executeQueryFind(g, args)
    ELSE Executed(g, "unknown tool", <<>>, {})

\* A decoding that takes whatever fits and never fails
CallToolRequestLenient(params) ==
    IF params.kind # "object" THEN [ok |-> TRUE, Name |-> "", Arguments |-> EmptyMap]
    ELSE LET p == params.o
         IN [ok |-> TRUE,
             Name |-> IF "name" \in DOMAIN p /\ p["name"].kind = "string"
                      THEN p["name"].s ELSE "",
             Arguments |-> IF "arguments" \in DOMAIN p
                                 /\ p["arguments"].kind = "object"
                           THEN p["arguments"].o ELSE EmptyMap]

\* json.Unmarshal of the params into a CallToolRequest
CallToolRequest(params) ==
    IF params.kind = "nil" THEN [ok |-> TRUE, Name |-> "", Arguments |-> EmptyMap]
    ELSE IF params.kind # "object" THEN [ok |-> FALSE, Name |-> "", Arguments |-> EmptyMap]
    ELSE LET p == params.o
         IN IF "name" \in DOMAIN p /\ p["name"].kind # "string"
            THEN [ok |-> FALSE, Name |-> "", Arguments |-> EmptyMap]
            ELSE IF "arguments" \in DOMAIN p /\ p["arguments"].kind # "object"
            THEN [ok |-> FALSE, Name |-> "", Arguments |-> EmptyMap]
            ELSE [ok |-> TRUE,
                  Name |-> IF "name" \in DOMAIN p THEN p["name"].s ELSE "",
                  Arguments |-> IF "arguments" \in DOMAIN p
                                THEN p["arguments"].o ELSE EmptyMap]

\* json.Unmarshal of the params into an InitializeRequest
InitializeRequestOk(params) ==
    \/ params.kind = "nil"
    \/ /\ params.kind = "object"
       /\ "protocolVersion" \in DOMAIN params.o
             => params.o["protocolVersion"].kind = "string"

InitializeResponse ==
    [kind |-> "initialize", ProtocolVersion |-> "2024-11-05",
     Capabilities |-> [Tools |-> [ListChanged |-> FALSE]],
     ServerInfo |-> [Name |-> "RelatixDB", Version |-> "1.0.0"]]

ListToolsResponse == [kind |-> "tools", Tools |-> ToolNames]

\* What a handle* method leaves: the flag, the graph, the response, the nodes
\* a result text lists, and whether graph.Query was entered for a paths query
Handled(initialized, g, response, text, nodes, querying) ==
    [initialized |-> initialized, g |-> g, response |-> response,
     text |-> text, nodes |-> nodes, querying |-> querying]

\* An initialize that refuses to run twice
handleInitializeOnce(h, g, req) ==
    IF h.initialized
    THEN Handled(h.initialized, g,
                 NewJSONRPCErrorResponse(req.id, InvalidRequest,
                                         "Server already initialized"),
                 <<>>, {}, FALSE)
    ELSE Handled(TRUE, g, NewJSONRPCResponse(req.id, InitializeResponse),
                 <<>>, {}, FALSE)

handleInitialize(h, g, req) ==
    IF ~InitializeRequestOk(req.params)
    THEN Handled(h.initialized, g,
                 NewJSONRPCErrorResponse(req.id, InvalidParams,
                                         "Invalid initialize params"),
                 <<>>, {}, FALSE)
    ELSE Handled(TRUE, g, NewJSONRPCResponse(req.id, InitializeResponse),
                 <<>>, {}, FALSE)

\* A tools/list that does not look at the flag
handleToolsListUnchecked(h, g, req) ==
    Handled(h.initialized, g, NewJSONRPCResponse(req.id, ListToolsResponse),
            <<>>, {}, FALSE)

handleToolsList(h, g, req) ==
    IF ~h.initialized
    THEN Handled(h.initialized, g,
                 NewJSONRPCErrorResponse(req.id, InvalidRequest,
                                         "Server not initialized"),
                 <<>>, {}, FALSE)
    ELSE Handled(h.initialized, g,
                 NewJSONRPCResponse(req.id, ListToolsResponse), <<>>, {}, FALSE)

\* A tools/call that reports a failing tool as a JSON-RPC error
handleToolsCallProtocolError(h, g, req) ==
    LET callReq == CallToolRequest(req.params)
        done == executeTool(g, callReq.Name, callReq.Arguments)
    IN IF ~h.initialized
       THEN Handled(h.initialized, g,
                    NewJSONRPCErrorResponse(req.id, InvalidRequest,
                                            "Server not initialized"),
                    <<>>, {}, FALSE)
       ELSE IF ~callReq.ok
       THEN Handled(h.initialized, g,
                    NewJSONRPCErrorResponse(req.id, InvalidParams,
                                            "Invalid call tool params"),
                    <<>>, {}, FALSE)
       ELSE IF done.err # "ok"
       THEN Handled(h.initialized, done.g,
                    NewJSONRPCErrorResponse(req.id, InternalError, done.err),
                    <<>>, {}, FALSE)
       ELSE Handled(h.initialized, done.g, Nil, done.text, done.nodes,
                    callReq.Name = "query_paths")

handleToolsCall(h, g, req) ==
    LET callReq == CallToolRequest(req.params)
        done == executeTool(g, callReq.Name, callReq.Arguments)
    IN IF ~h.initialized
       THEN Handled(h.initialized, g,
                    NewJSONRPCErrorResponse(req.id, InvalidRequest,
                                            "Server not initialized"),
                    <<>>, {}, FALSE)
       ELSE IF ~callReq.ok
       THEN Handled(h.initialized, g,
                    NewJSONRPCErrorResponse(req.id, InvalidParams,
                                            "Invalid call tool params"),
                    <<>>, {}, FALSE)
       ELSE IF done.err # "ok"
       THEN Handled(h.initialized, done.g,
                    NewJSONRPCResponse(req.id, ToolErrorResult(done.err)),
                    <<>>, {}, FALSE)
       ELSE Handled(h.initialized, done.g, Nil, done.text, done.nodes,
                    callReq.Name = "query_paths")

processRequest(h, g, line) ==
    IF ~ParseJSONRPCRequest(line)
    THEN Handled(h.initialized, g,
                 NewJSONRPCErrorResponse(Nil, ParseError, "Parse error"),
                 <<>>, {}, FALSE)
    ELSE IF line.method = "initialize" THEN handleInitialize(h, g, line)
    ELSE IF line.method = "tools/list" THEN handleToolsList(h, g, line)
    ELSE IF line.method = "tools/call" THEN handleToolsCall(h, g, line)
    ELSE Handled(h.initialized, g,
                 NewJSONRPCErrorResponse(line.id, MethodNotFound,
                                         "Method not found"),
                 <<>>, {}, FALSE)

\* The requests of the client
ToolCall(name, args) ==
    Request("tools/call",
            JObject([name |-> JString(name), arguments |-> JObject(args)]))

MaxDepthInputs == {-10, 0, 5, 10, 40, 100, 105, 110}

ToolCallInputs ==
    {ToolCall("add_node", args) :
        args \in {[id |-> JString("a"), type |-> JString("t")],
                  [id |-> JString("b"),
                   props |-> JObject([name |-> JString("v"), n |-> JNumber(10)])],
                  [id |-> JString("")], [id |-> JNumber(10)], EmptyMap,
                  [id |-> JString("a"), type |-> JNumber(10)]}}
    \cup {ToolCall("add_edge", args) :
        args \in {[from |-> JString("a"), to |-> JString("b"), label |-> JString("l")],
                  [from |-> JString("b"), to |-> JString("a"), label |-> JString("l")],
                  [from |-> JString("a"), to |-> JString("b")],
                  [from |-> JString("a"), to |-> JString("b"), label |-> JString("")]}}
    \cup {ToolCall("delete_node", args) : args \in {[id |-> JString("a")], EmptyMap}}
    \cup {ToolCall("delete_edge", args) :
        args \in {[from |-> JString("a"), to |-> JString("b"), label |-> JString("l")],
                  [from |-> JString("a")]}}
    \cup {ToolCall("query_neighbors", args) :
        args \in {[node |-> JString("a")],
                  [node |-> JString("b"), direction |-> JString("in")],
                  [node |-> JString("a"), direction |-> JString("up")],
                  [node |-> JString("a"), direction |-> JNumber(10)],
                  [node |-> JString("a"), label |-> JNumber(10)],
                  EmptyMap}}
    \cup {ToolCall("query_paths", args) :
        args \in {[from |-> JString("a"), to |-> JString("b")],
                  [from |-> JString("a"), to |-> JString("a")],
                  [from |-> JString("a"), to |-> JString("b"),
                   max_depth |-> JString("3")],
                  [from |-> JString("a")]}
                 \cup {[from |-> JString("a"), to |-> JString("b"),
                        max_depth |-> JNumber(d)] : d \in MaxDepthInputs}}
    \cup {ToolCall("query_find", args) :
        args \in {[type |-> JString("t")],
                  [props |-> JObject([name |-> JString("v")])], EmptyMap}}
    \cup {ToolCall("drop_graph", EmptyMap)}

RequestInputs ==
    {NoRequest,
     [Request("initialize", Nil) EXCEPT !.jsonrpc = "1.0"],
     Request("", Nil),
     Request("initialize", Nil),
     Request("initialize", JObject([protocolVersion |-> JString("2024-11-05")])),
     Request("initialize", JString("x")),
     Request("tools/list", Nil),
     Request("resources/list", Nil),
     Request("tools/call", Nil),
     Request("tools/call", JString("x")),
     Request("tools/call", JObject([name |-> JString("add_node"),
                                    arguments |-> JString("x")])),
     Request("tools/call", JObject([name |-> JNumber(10)]))}
    \cup ToolCallInputs

\* Run, one line: processRequest and writeResponse.  A result text lists
\* the nodes in the order of the result slice.
Process(line) ==
    /\ handler.pc = "idle"
    /\ LET out == processRequest(handler, graph, line)
       IN /\ graph' = out.g
          /\ IF out.querying
             THEN handler' = [handler EXCEPT !.pc = "query_paths",
                                             !.request = line]
             ELSE IF out.response.kind = "nil"
             THEN \E order \in Orders(out.nodes) :
                     handler' =
                        [initialized |-> out.initialized, pc |-> "idle",
                         request |-> line,
                         response |->
                            NewJSONRPCResponse(line.id,
                               TextResult(out.text \o
                                  [i \in DOMAIN order |-> order[i].ID]))]
             ELSE handler' = [initialized |-> out.initialized, pc |-> "idle",
                              request |-> line, response |-> out.response]
    /\ UNCHANGED <<db, ret, qe, seen, mu, pgmu, thr, maps>>

\* A client that sends one line and reads the response
HandleRequest(line) == Process(line) /\ UNCHANGED <<run, saver>>

\* executeQueryPaths: h.graph.Query with the paths query
HandlerQueryPaths ==
    /\ handler.pc = "query_paths"
    /\ LET args == CallToolRequest(handler.request.params).Arguments
       IN QueryPaths(StringArg(args, "from").v, StringArg(args, "to").v,
                     PathsMaxDepth(args))

\* executeQueryPaths: the line of the result text for one path, "a -> b"
RECURSIVE PathText(_)
PathText(nodes) ==
    IF Len(nodes) = 1 THEN nodes[1].ID
    ELSE nodes[1].ID \o " -> " \o PathText(Tail(nodes))

\* executeQueryPaths: the result of the query becomes the response
WritePathsResponse ==
    /\ handler.pc = "query_paths"
    /\ qe.pc = "done"
    /\ handler' =
          [handler EXCEPT
             !.pc = "idle",
             !.response =
                NewJSONRPCResponse(handler.request.id,
                   IF ret.err # "ok" THEN ToolErrorResult(ret.err)
                   ELSE TextResult(<<"Found paths", qe.from, qe.to>> \o
                           [p \in DOMAIN qe.paths |-> PathText(qe.paths[p])]))]
    /\ qe' = IdleQuery
    /\ UNCHANGED <<graph, db, ret, seen, mu, pgmu, thr, maps, run, saver>>

NextHandler ==
    \/ \E line \in RequestInputs : HandleRequest(line)
    \/ HandlerQueryPaths
    \/ FindPathsFromExists
    \/ FindPathsToExists
    \/ FindPathsSelf
    \/ FindPathsDequeue
    \/ FindPathsNeighbor
    \/ BuildPathNodes
    \/ WritePathsResponse

SpecHandler == InitMem /\ [][NextHandler]_vars

(***************************************************************************)
(* Handler.Run: the loop that scans stdin line by line, looks at the       *)
(* context, processes the line and writes the response to stdout.          *)
(***************************************************************************)
MaxLines == 3

BlankLine == [valid |-> FALSE, jsonrpc |-> "", method |-> "", bytes |-> ""]

IsBlank(line) == ~line.valid /\ line.bytes = ""

WithId(request, n) == [request EXCEPT !.id = JNumber(n)]

RunLineInputs ==
    {BlankLine, NoRequest,
     WithId(Request("initialize", Nil), 10),
     WithId(ToolCall("add_node", [id |-> JString("a")]), 20),
     WithId(ToolCall("query_paths", [from |-> JString("a"), to |-> JString("b")]), 30),
     WithId(ToolCall("query_paths", [from |-> JString("a"), to |-> JString("a")]), 40)}

\* The database file the server is started on: new, or written by an
\* earlier run that added a, b and the edge between them
StoredDB ==
    TxSaveEdge(TxSaveNode(TxSaveNode(EmptyDB, Node("a", "t", NoProps)),
                          Node("b", "", NoProps)),
               Edge("a", "b", "l", NoProps))

\* main: the graph is loaded, then the handler is made and Run is called
InitRun ==
    /\ db \in {EmptyDB, StoredDB}
    /\ graph = PersistentLoad(NewMemoryGraph, db).g
    /\ ret = Returned("new", "", "ok")
    /\ qe = IdleQuery
    /\ InitConc

\* The client writes a line to the server's stdin
Arrive(line) ==
    /\ run.inputEnd = "open"
    /\ Len(run.consumed) + Len(run.stdin) < MaxLines
    /\ run' = [run EXCEPT !.stdin = Append(@, line)]
    /\ UNCHANGED <<graph, db, ret, qe, seen, mu, pgmu, thr, maps, handler, saver>>

\* stdin ends: the client closes it, or reading it fails
EndInput(how) ==
    /\ run.inputEnd = "open"
    /\ run' = [run EXCEPT !.inputEnd = how]
    /\ UNCHANGED <<graph, db, ret, qe, seen, mu, pgmu, thr, maps, handler, saver>>

\* main: the signal goroutine calls cancel()
Cancel ==
    /\ ~run.canceled
    /\ run' = [run EXCEPT !.canceled = TRUE]
    /\ UNCHANGED <<graph, db, ret, qe, seen, mu, pgmu, thr, maps, handler, saver>>

RunStart ==
    /\ run.pc = "new"
    /\ run' = [run EXCEPT !.pc = "scan"]
    /\ UNCHANGED <<graph, db, ret, qe, seen, mu, pgmu, thr, maps, handler, saver>>

\* h.reader.Scan(): takes the next line, or ends the loop at the end of the
\* input; with neither it blocks
RunScan ==
    /\ run.pc = "scan"
    /\ IF run.stdin # <<>>
       THEN run' = [run EXCEPT !.stdin = Tail(@), !.line = Head(run.stdin),
                               !.consumed = Append(@, Head(run.stdin)),
                               !.pc = "select"]
       ELSE /\ run.inputEnd # "open"
            /\ run' = [run EXCEPT !.pc = "returned",
                                  !.err = IF run.inputEnd = "eof" THEN "nil"
                                          ELSE "scanner error"]
    /\ UNCHANGED <<graph, db, ret, qe, seen, mu, pgmu, thr, maps, handler, saver>>

\* select on ctx.Done() with a default, then the blank line check
RunSelect ==
    /\ run.pc = "select"
    /\ run' = IF run.canceled
              THEN [run EXCEPT !.pc = "returned", !.err = "context canceled"]
              ELSE IF IsBlank(run.line) THEN [run EXCEPT !.pc = "scan"]
              ELSE [run EXCEPT !.pc = "process"]
    /\ UNCHANGED <<graph, db, ret, qe, seen, mu, pgmu, thr, maps, handler, saver>>

RunProcess ==
    /\ run.pc = "process"
    /\ Process(run.line)
    /\ run' = [run EXCEPT !.pc = "write"]
    /\ UNCHANGED saver

\* writeResponse: the JSON of the response and a newline go to the writer
RunWrite ==
    /\ run.pc = "write" /\ handler.pc = "idle"
    /\ run' = [run EXCEPT !.output = Append(@, ToJSON(handler.response)),
                          !.pc = "scan"]
    /\ UNCHANGED <<graph, db, ret, qe, seen, mu, pgmu, thr, maps, handler, saver>>

\* writeResponse: h.writer.Write fails
RunWriteFails ==
    /\ run.pc = "write" /\ handler.pc = "idle"
    /\ run' = [run EXCEPT !.pc = "returned", !.err = "failed to write response"]
    /\ UNCHANGED <<graph, db, ret, qe, seen, mu, pgmu, thr, maps, handler, saver>>

\* The steps Run takes on its own
RunSteps ==
    \/ RunStart
    \/ RunScan
    \/ RunSelect
    \/ RunProcess
    \/ HandlerQueryPaths
    \/ FindPathsFromExists
    \/ FindPathsToExists
    \/ FindPathsSelf
    \/ FindPathsDequeue
    \/ FindPathsNeighbor
    \/ BuildPathNodes
    \/ WritePathsResponse
    \/ RunWrite

NextRun ==
    \/ \E line \in RunLineInputs : Arrive(line)
    \/ \E how \in {"eof", "error"} : EndInput(how)
    \/ Cancel
    \/ RunWriteFails
    \/ RunSteps

SpecRun == InitRun /\ [][NextRun]_vars

\* The scheduler runs the goroutine of Run whenever it can take a step; the
\* client and the signal are under no obligation
SpecRunLive == SpecRun /\ WF_vars(RunSteps)

(***************************************************************************)
(* The {cmd, args} Handler of internal/mcp: one command per line, answered *)
(* by {ok, result, error}.  An error text is the sequence of its parts.    *)
(* The variable handler holds this Handler, which has no initialized flag. *)
(***************************************************************************)
Command(cmd, args) == [valid |-> TRUE, cmd |-> cmd, args |-> args]

NewSuccessResponse(result) ==
    [kind |-> "response", OK |-> TRUE, Result |-> result, Error |-> <<>>]

NewErrorResponse(err) ==
    [kind |-> "response", OK |-> FALSE, Result |-> Nil, Error |-> err]

\* Response.ToJSON: result and error are left out when empty
ResponseToJSON(response) ==
    [ok |-> response.OK,
     hasResult |-> response.Result.kind # "nil", result |-> response.Result,
     hasError |-> response.Error # <<>>, error |-> response.Error]

\* ParseCommand: the error, or <<>>
ParseCommand(line) ==
    IF ~line.valid THEN <<"failed to parse command: ", "not json">>
    ELSE IF line.cmd = "" THEN <<"command field is required">>
    ELSE <<>>

\* json.Unmarshal of the args into a struct with these string, map and int
\* fields: no args at all, or a value of another type, is an error
Unmarshals(args, strings, mappings, ints) ==
    /\ args.kind = "object"
    /\ \A k \in strings \cap DOMAIN args.o : args.o[k].kind = "string"
    /\ \A k \in mappings \cap DOMAIN args.o :
          /\ args.o[k].kind = "object"
          /\ \A p \in DOMAIN args.o[k].o : args.o[k].o[p].kind = "string"
    /\ \A k \in ints \cap DOMAIN args.o :
          args.o[k].kind = "number" /\ args.o[k].n % 10 = 0

StringField(args, key) == IF key \in DOMAIN args.o THEN args.o[key].s ELSE ""

MapField(args, key) ==
    IF key \in DOMAIN args.o
    THEN [isNil |-> FALSE,
          kv |-> [p \in DOMAIN args.o[key].o |-> args.o[key].o[p].s]]
    ELSE NilProps

IntField(args, key) == IF key \in DOMAIN args.o THEN args.o[key].n \div 10 ELSE 0

\* Command.ParseArgs: [err, a], a the decoded struct
ParseArgs(c) ==
    LET failed(what) ==
            [err |-> <<what, "cannot unmarshal">>, a |-> Nil]
    IN IF c.cmd = "add_node"
       THEN IF ~Unmarshals(c.args, {"id", "type"}, {"props"}, {})
            THEN failed("failed to parse add_node args: ")
            ELSE [err |-> <<>>,
                  a |-> [ID |-> StringField(c.args, "id"),
                         Type |-> StringField(c.args, "type"),
                         Props |-> MapField(c.args, "props")]]
       ELSE IF c.cmd = "add_edge"
       THEN IF ~Unmarshals(c.args, {"from", "to", "label"}, {"props"}, {})
            THEN failed("failed to parse add_edge args: ")
            ELSE [err |-> <<>>,
                  a |-> [From |-> StringField(c.args, "from"),
                         To |-> StringField(c.args, "to"),
                         Label |-> StringField(c.args, "label"),
                         Props |-> MapField(c.args, "props")]]
       ELSE IF c.cmd = "delete_node"
       THEN IF ~Unmarshals(c.args, {"id"}, {}, {})
            THEN failed("failed to parse delete_node args: ")
            ELSE [err |-> <<>>, a |-> [ID |-> StringField(c.args, "id")]]
       ELSE IF c.cmd = "delete_edge"
       THEN IF ~Unmarshals(c.args, {"from", "to", "label"}, {}, {})
            THEN failed("failed to parse delete_edge args: ")
            ELSE [err |-> <<>>,
                  a |-> [From |-> StringField(c.args, "from"),
                         To |-> StringField(c.args, "to"),
                         Label |-> StringField(c.args, "label")]]
       ELSE IF c.cmd = "query"
       THEN IF ~Unmarshals(c.args,
                           {"type", "node", "label", "direction", "from", "to"},
                           {"filters"}, {"max_depth"})
            THEN failed("failed to parse query args: ")
            ELSE [err |-> <<>>,
                  a |-> [Type |-> StringField(c.args, "type"),
                         Node |-> StringField(c.args, "node"),
                         Label |-> StringField(c.args, "label"),
                         Direction |-> StringField(c.args, "direction"),
                         MaxDepth |-> IntField(c.args, "max_depth"),
                         Filters |-> MapField(c.args, "filters").kv,
                         From |-> StringField(c.args, "from"),
                         To |-> StringField(c.args, "to")]]
       ELSE [err |-> <<"unknown command: ", c.cmd>>, a |-> Nil]

\* The Validate methods: the error, or <<>>
NodeArgsValidate(a) ==
    IF a.ID = "" THEN <<"node ID is required">> ELSE <<>>

\* A Validate that forgets the label
EdgeArgsValidateEnds(a) ==
    IF a.From = "" THEN <<"from node is required">>
    ELSE IF a.To = "" THEN <<"to node is required">>
    ELSE <<>>

EdgeArgsValidate(a) ==
    IF a.From = "" THEN <<"from node is required">>
    ELSE IF a.To = "" THEN <<"to node is required">>
    ELSE IF a.Label = "" THEN <<"edge label is required">>
    ELSE <<>>

QueryArgsValidate(a) ==
    IF a.Type = "" THEN <<"query type is required">>
    ELSE IF a.Type = "neighbors"
    THEN IF a.Node = "" THEN <<"node is required for neighbors query">>
         ELSE IF a.Direction \notin {"", "in", "out", "both"}
         THEN <<"invalid direction: must be 'in', 'out', or 'both'">>
         ELSE <<>>
    ELSE IF a.Type = "paths"
    THEN IF a.From = "" THEN <<"from node is required for paths query">>
         ELSE IF a.To = "" THEN <<"to node is required for paths query">>
         ELSE <<>>
    ELSE IF a.Type = "find"
    THEN IF DOMAIN a.Filters = {}
         THEN <<"filters are required for find query">> ELSE <<>>
    ELSE <<"unknown query type: ", a.Type>>

\* What a handle* method leaves: the graph, the response, the nodes a query
\* found, and whether graph.Query was entered for a paths query
Commanded(g, response, nodes, querying) ==
    [g |-> g, response |-> response, nodes |-> nodes, querying |-> querying]

\* The response of a graph call that returned err
GraphResponse(r, result) ==
    Commanded(r.g, IF r.err # "ok" THEN NewErrorResponse(<<r.err>>)
                   ELSE NewSuccessResponse(result), {}, FALSE)

handleAddNode(g, a) ==
    IF NodeArgsValidate(a) # <<>>
    THEN Commanded(g, NewErrorResponse(NodeArgsValidate(a)), {}, FALSE)
    ELSE GraphResponse(MemAddNode(g, Node(a.ID, a.Type, a.Props)),
                       [kind |-> "node", node_id |-> a.ID, action |-> "added"])

handleAddEdge(g, a) ==
    IF EdgeArgsValidate(a) # <<>>
    THEN Commanded(g, NewErrorResponse(EdgeArgsValidate(a)), {}, FALSE)
    ELSE GraphResponse(MemAddEdge(g, Edge(a.From, a.To, a.Label, a.Props)),
                       [kind |-> "edge", from |-> a.From, to |-> a.To,
                        label |-> a.Label, action |-> "added"])

handleDeleteNode(g, a) ==
    IF NodeArgsValidate(a) # <<>>
    THEN Commanded(g, NewErrorResponse(NodeArgsValidate(a)), {}, FALSE)
    ELSE GraphResponse(MemDeleteNode(g, a.ID),
                       [kind |-> "node", node_id |-> a.ID, action |-> "deleted"])

handleDeleteEdge(g, a) ==
    IF EdgeArgsValidate(a) # <<>>
    THEN Commanded(g, NewErrorResponse(EdgeArgsValidate(a)), {}, FALSE)
    ELSE GraphResponse(MemDeleteEdge(g, a.From, a.To, a.Label),
                       [kind |-> "edge", from |-> a.From, to |-> a.To,
                        label |-> a.Label, action |-> "deleted"])

\* handleQuery for the kinds that run in one step; a valid paths query goes
\* on to graph.Query
handleQuery(g, a) ==
    LET got == QueryDispatch(g, a)
    IN IF QueryArgsValidate(a) # <<>>
       THEN Commanded(g, NewErrorResponse(QueryArgsValidate(a)), {}, FALSE)
       ELSE IF a.Type = "paths" THEN Commanded(g, Nil, {}, TRUE)
       ELSE IF got.err # "ok"
       THEN Commanded(g, NewErrorResponse(<<got.err>>), {}, FALSE)
       ELSE Commanded(g, Nil, got.nodes, FALSE)

processCommand(g, line) ==
    LET args == ParseArgs(line)
    IN IF ParseCommand(line) # <<>>
       THEN Commanded(g, NewErrorResponse(<<"failed to parse command: ">>
                                             \o ParseCommand(line)), {}, FALSE)
       ELSE IF args.err # <<>>
       THEN Commanded(g, NewErrorResponse(<<"failed to parse args: ">>
                                             \o args.err), {}, FALSE)
       ELSE IF line.cmd = "add_node" THEN handleAddNode(g, args.a)
       ELSE IF line.cmd = "add_edge" THEN handleAddEdge(g, args.a)
       ELSE IF line.cmd = "delete_node" THEN handleDeleteNode(g, args.a)
       ELSE IF line.cmd = "delete_edge" THEN handleDeleteEdge(g, args.a)
       ELSE handleQuery(g, args.a)

\* The commands of the client
CommandInputs ==
    {[valid |-> FALSE, cmd |-> "", args |-> Nil],
     Command("", JObject([id |-> JString("a")])),
     Command("drop", JObject(EmptyMap)),
     Command("add_node", Nil)}
    \cup {Command("add_node", JObject(args)) :
            args \in {[id |-> JString("a"), type |-> JString("t")],
                      [id |-> JString("b"),
                       props |-> JObject([name |-> JString("v")])],
                      [id |-> JString(""), type |-> JString("t")],
                      [type |-> JString("t")],
                      [id |-> JNumber(10)]}}
    \cup {Command("delete_node", JObject(args)) :
            args \in {[id |-> JString("a")], [id |-> JString("")], EmptyMap}}
    \cup {Command(cmd, JObject(args)) :
            cmd \in {"add_edge", "delete_edge"},
            args \in {[from |-> JString("a"), to |-> JString("b"),
                       label |-> JString("l")],
                      [from |-> JString(""), to |-> JString("b"),
                       label |-> JString("l")],
                      [from |-> JString("a"), to |-> JString(""),
                       label |-> JString("l")],
                      [from |-> JString("a"), to |-> JString("b"),
                       label |-> JString("")],
                      [from |-> JString("a"), to |-> JString("b")]}}
    \cup {Command("query", JObject(args)) :
            args \in {[type |-> JString("neighbors"), node |-> JString("a")],
                      [type |-> JString("neighbors"), node |-> JString("b"),
                       direction |-> JString("in")],
                      [type |-> JString("neighbors"), node |-> JString("a"),
                       direction |-> JString("up")],
                      [type |-> JString("neighbors"), direction |-> JString("out")],
                      [type |-> JString("paths"), from |-> JString("a"),
                       to |-> JString("b")],
                      [type |-> JString("paths"), from |-> JString("a"),
                       to |-> JString("a"), max_depth |-> JNumber(20)],
                      [type |-> JString("paths"), to |-> JString("b")],
                      [type |-> JString("paths"), from |-> JString("a")],
                      [type |-> JString("find"),
                       filters |-> JObject([type |-> JString("t")])],
                      [type |-> JString("find")],
                      [type |-> JString("walk"), node |-> JString("a")],
                      [node |-> JString("a")]}}

\* ProcessSingleCommand: processCommand and the response.  The result of a
\* query lists the nodes in the order of the result slice.
ProcessSingleCommand(line) ==
    /\ handler.pc = "idle"
    /\ LET out == processCommand(graph, line)
       IN /\ graph' = out.g
          /\ IF out.querying
             THEN handler' = [handler EXCEPT !.pc = "query_paths",
                                             !.request = line]
             ELSE IF out.response.kind = "nil"
             THEN \E order \in Orders(out.nodes) :
                     handler' =
                        [handler EXCEPT
                           !.request = line,
                           !.response =
                              NewSuccessResponse(
                                 [kind |-> "nodes",
                                  Nodes |-> [i \in DOMAIN order |-> order[i].ID]])]
             ELSE handler' = [handler EXCEPT !.request = line,
                                             !.response = out.response]
    /\ UNCHANGED <<db, ret, qe, seen, mu, pgmu, thr, maps, run, saver>>

\* handleQuery: h.graph.Query with the paths query
CommandQueryPaths ==
    /\ handler.pc = "query_paths"
    /\ LET a == ParseArgs(handler.request).a
       IN QueryPaths(a.From, a.To, a.MaxDepth)

\* handleQuery: the result of the paths query becomes the response
CommandPathsResponse ==
    /\ handler.pc = "query_paths"
    /\ qe.pc = "done"
    /\ handler' =
          [handler EXCEPT
             !.pc = "idle",
             !.response =
                IF ret.err # "ok" THEN NewErrorResponse(<<ret.err>>)
                ELSE NewSuccessResponse(
                        [kind |-> "paths",
                         Paths |-> [p \in DOMAIN qe.paths |-> PathText(qe.paths[p])]])]
    /\ qe' = IdleQuery
    /\ UNCHANGED <<graph, db, ret, seen, mu, pgmu, thr, maps, run, saver>>

NextCommands ==
    \/ \E line \in CommandInputs : ProcessSingleCommand(line)
    \/ CommandQueryPaths
    \/ FindPathsFromExists
    \/ FindPathsToExists
    \/ FindPathsSelf
    \/ FindPathsDequeue
    \/ FindPathsNeighbor
    \/ BuildPathNodes
    \/ CommandPathsResponse

SpecCommands == InitMem /\ [][NextCommands]_vars

(***************************************************************************)
(* C1: after any sequence of add_node, delete_node, add_edge and           *)
(* delete_edge calls, every stored edge e is in out_edges[e.from] and in   *)
(* in_edges[e.to], and every entry of out_edges and in_edges is an edge    *)
(* currently in primary storage.                                           *)
(***************************************************************************)
EdgeIndexesAgree ==
    /\ \A k \in DOMAIN graph.edges :
         LET e == graph.edges[k]
         IN /\ e.From \in DOMAIN graph.outEdges
            /\ k \in DOMAIN graph.outEdges[e.From]
            /\ graph.outEdges[e.From][k] = e
            /\ e.To \in DOMAIN graph.inEdges
            /\ k \in DOMAIN graph.inEdges[e.To]
            /\ graph.inEdges[e.To][k] = e
    /\ \A o \in DOMAIN graph.outEdges : \A k \in DOMAIN graph.outEdges[o] :
         k \in DOMAIN graph.edges /\ graph.edges[k].From = o
    /\ \A i \in DOMAIN graph.inEdges : \A k \in DOMAIN graph.inEdges[i] :
         k \in DOMAIN graph.edges /\ graph.edges[k].To = i

(***************************************************************************)
(* C2: if begin-transaction, the persistence operation or commit fails     *)
(* during a PersistentGraph mutation, then when the call returns the       *)
(* in-memory core (nodes, edges, all indexes) and the backend contents are *)
(* what they were before the call began.                                   *)
(***************************************************************************)
\* An index without its empty buckets (an empty bucket holds no entry)
Buckets(index) == [o \in {x \in DOMAIN index : DOMAIN index[x] # {}} |-> index[o]]

SameCore(g1, g2) ==
    /\ g1.nodes = g2.nodes
    /\ g1.edges = g2.edges
    /\ g1.nodesByType = g2.nodesByType
    /\ Buckets(g1.outEdges) = Buckets(g2.outEdges)
    /\ Buckets(g1.inEdges) = Buckets(g2.inEdges)

CompensationRestores ==
    [][ret'.err \in PersistErrors => SameCore(graph', graph) /\ db' = db]_vars

(***************************************************************************)
(* C3: after every successful PersistentGraph mutation, the nodes and the  *)
(* edges stored in the backend are the nodes and edges of the in-memory    *)
(* core.                                                                   *)
(***************************************************************************)
Mutations == {"add_node", "delete_node", "add_edge", "delete_edge"}

Range(f) == {f[x] : x \in DOMAIN f}

BackendMatchesMemory ==
    /\ DOMAIN db.nodes = DOMAIN graph.nodes
    /\ Range(db.nodes) = {SerializeNode(n) : n \in Range(graph.nodes)}
    /\ DOMAIN db.edges = DOMAIN graph.edges
    /\ Range(db.edges) = {SerializeEdge(e) : e \in Range(graph.edges)}

BackendMirrorsMemory ==
    (ret.op \in Mutations /\ ret.err = "ok") => BackendMatchesMemory

(***************************************************************************)
(* C4: after any sequence of successful mutations, closing, reopening the  *)
(* store and loading succeeds and yields a graph observably equal (same    *)
(* nodes_by_type, same neighbors of every node) to the in-memory state     *)
(* before the close.                                                       *)
(***************************************************************************)
Directions == {"out", "in", "both"}

ObservablyEqual(g1, g2) ==
    /\ \A t \in Types : MemGetNodesByType(g1, t) = MemGetNodesByType(g2, t)
    /\ \A id \in NodeIds, dir \in Directions :
          MemGetNeighbors(g1, id, dir) = MemGetNeighbors(g2, id, dir)

DurabilityRoundTrip ==
    [][ret'.op = "load" => ret'.err = "ok" /\ ObservablyEqual(graph', graph)]_vars

(***************************************************************************)
(* C5: after a committed delete_node(x), a later load of the same store    *)
(* does not fail because of the deletion and yields no edge incident to x. *)
(***************************************************************************)
IncidentEdges(g, x) ==
    {k \in DOMAIN g.edges : g.edges[k].From = x \/ g.edges[k].To = x}

LoadAfterDeleteNode ==
    [][(ret.op = "delete_node" /\ ret.err = "ok" /\ ret'.op = "load")
          => (ret'.err = "ok" /\ IncidentEdges(graph', ret.arg) = {})]_vars

(***************************************************************************)
(* C6: every path a paths query (from, to, max_depth) returns starts at    *)
(* from, ends at to, joins consecutive nodes by a directed edge of the     *)
(* graph, repeats no node and has at most max_depth edges.                 *)
(***************************************************************************)
HasEdge(g, x, y) ==
    \E k \in DOMAIN g.edges : g.edges[k].From = x /\ g.edges[k].To = y

PathIds(path) == [i \in 1..Len(path) |-> path[i].ID]

SoundPath(g, ids, from, to, maxDepth) ==
    /\ Len(ids) >= 1
    /\ ids[1] = from
    /\ ids[Len(ids)] = to
    /\ \A i \in 1..(Len(ids) - 1) : HasEdge(g, ids[i], ids[i + 1])
    /\ \A i, j \in 1..Len(ids) : i # j => ids[i] # ids[j]
    /\ Len(ids) - 1 <= maxDepth

QueryAnswered == qe.pc = "done" /\ ret.op = "query_paths" /\ ret.err = "ok"

PathsSound ==
    QueryAnswered =>
        \A i \in 1..Len(qe.paths) :
            SoundPath(graph, PathIds(qe.paths[i]), qe.from, qe.to, qe.maxDepth)

(***************************************************************************)
(* C7: every simple directed path from `from` to `to` with at most         *)
(* max_depth edges appears in the result of the paths query, whatever the  *)
(* order in which neighbors are enumerated.                                *)
(***************************************************************************)
RECURSIVE SimplePaths(_, _, _, _)
SimplePaths(g, ids, to, depthLeft) ==
    IF ids[Len(ids)] = to THEN {ids}
    ELSE IF depthLeft = 0 THEN {}
    ELSE UNION {SimplePaths(g, Append(ids, y), to, depthLeft - 1) :
                  y \in {n \in DOMAIN g.nodes :
                           HasEdge(g, ids[Len(ids)], n) /\ ~contains(ids, n)}}

PathsComplete ==
    QueryAnswered =>
        \A ids \in SimplePaths(graph, <<qe.from>>, qe.to, qe.maxDepth) :
            \E i \in 1..Len(qe.paths) : PathIds(qe.paths[i]) = ids

(***************************************************************************)
(* C8: no deadlock is reachable when several callers use the in-memory     *)
(* graph concurrently: while calls are in progress, one of them can take   *)
(* its next step (so, under a fair scheduler, every call returns).         *)
(***************************************************************************)
InCall(t) == thr[t].pc # "idle"

CanStep(t) ==
    \/ thr[t].pc \in {"gn_rlock", "gn_rlock2", "get_rlock"} /\ ~thr[t].blocked
    \/ thr[t].pc \in {"gn_exists", "gn_body", "get_body", "w_body"}
    \/ thr[t].pc = "w_lock" /\ LockAdmits(mu)
    \/ thr[t].pc = "w_wait" /\ ReadersDrained(mu)

NoDeadlock ==
    (\E t \in Threads : InCall(t)) => (\E t \in Threads : InCall(t) /\ CanStep(t))

(***************************************************************************)
(* C10: a paths query run on the in-memory graph while writers run         *)
(* observes one consistent snapshot: some graph that existed between the   *)
(* query's start and its end contains every returned path, and no path of  *)
(* that graph is missing from the result.                                  *)
(***************************************************************************)
ResultOf(g) ==
    /\ \A i \in 1..Len(qe.paths) :
          /\ \A n \in 1..Len(qe.paths[i]) : qe.paths[i][n].ID \in DOMAIN g.nodes
          /\ SoundPath(g, PathIds(qe.paths[i]), qe.from, qe.to, qe.maxDepth)
    /\ \A ids \in SimplePaths(g, <<qe.from>>, qe.to, qe.maxDepth) :
          \E i \in 1..Len(qe.paths) : PathIds(qe.paths[i]) = ids

QuerySeesOneSnapshot ==
    QueryAnswered => \E g \in seen : ResultOf(g)

\* C9: on one PersistentGraph at most one writer is inside a mutation, and
\* while a caller reads the memory graph no writer is inside one: a read
\* never runs between a mutation's change of memory and its commit or
\* compensation, nor between the removal of a deleted node's outgoing and
\* incoming edges.
PGWriterSection == {"pg_body", "pg_del_in", "pg_tx"}

RaceCallers(op) == {t \in Threads : thr[t].op = op}

RaceWinners(op) ==
    {t \in RaceCallers(op) : thr[t].pc = "returned" /\ thr[t].err = "ok"}

RaceAllReturned(op) ==
    /\ RaceCallers(op) # {}
    /\ \A t \in RaceCallers(op) : thr[t].pc = "returned"

OneAddWins ==
    /\ Cardinality(RaceWinners("add_node")) <= 1
    /\ Cardinality(RaceWinners("add_edge")) <= 1
    /\ \A t \in RaceCallers("add_node") :
          thr[t].pc = "returned" => thr[t].err \in {"ok", "ErrNodeExists"}
    /\ \A t \in RaceCallers("add_edge") :
          thr[t].pc = "returned" => thr[t].err \in {"ok", "ErrEdgeExists"}
    /\ RaceAllReturned("add_node") =>
          /\ Cardinality(RaceWinners("add_node")) = 1
          /\ \A t \in RaceWinners("add_node") :
                /\ "b" \in DOMAIN graph.nodes
                /\ graph.nodes["b"].Type = thr[t].node.Type
                /\ graph.nodes["b"].Props.kv = thr[t].node.Props.kv
                /\ graph.nodesByType["t"]["b"] = graph.nodes["b"]
    /\ RaceAllReturned("add_edge") =>
          /\ Cardinality(RaceWinners("add_edge")) = 1
          /\ DOMAIN graph.edges = {"a:a:l"}
          /\ \A t \in RaceWinners("add_edge") :
                graph.edges["a:a:l"].Props.kv = thr[t].edge.Props.kv

\* Three callers added the same node with different props; one won
ThreeRacedOneWon ==
    /\ \A t \in Threads : thr[t].op = "add_node" /\ thr[t].pc = "returned"
    /\ \E t \in Threads, u \in Threads :
          /\ thr[t].err = "ok"
          /\ thr[u].err = "ErrNodeExists"
          /\ thr[t].node # thr[u].node

\* C12: the triple (from, to, label) is the edge's identity, also when ids
\* or labels contain ':': add_edge fails with ErrEdgeExists only if an edge
\* with the same three fields is stored, get_edge returns only an edge with
\* the fields asked for, and delete_edge removes only that edge.
Triple(edge) == <<edge.From, edge.To, edge.Label>>

StoredTriples(g) == {Triple(g.edges[k]) : k \in DOMAIN g.edges}

TripleIsIdentity ==
    [][/\ ret'.op = "add_edge" /\ ret'.err = "ErrEdgeExists"
            => ret'.arg \in StoredTriples(graph)
       /\ ret'.op = "get_edge" /\ ret'.err = "ok"
            => Triple(MemGetEdge(graph, ret'.arg[1], ret'.arg[2],
                                 ret'.arg[3]).edge) = ret'.arg
       /\ ret'.op = "delete_edge" /\ ret'.err = "ok"
            => StoredTriples(graph') = StoredTriples(graph) \ {ret'.arg}]_vars

\* C13: for every node x, neighbors(x, "out") is exactly the set of nodes y
\* for which get_edge(x, y, l) succeeds for some label l, and
\* neighbors(x, "in") the set of nodes y for which get_edge(y, x, l)
\* succeeds for some l.
EdgeTargets(g, x) ==
    {y \in DOMAIN g.nodes :
        \E l \in Labels : MemGetEdge(g, x, y, l).err = "ok"}

EdgeSources(g, x) ==
    {y \in DOMAIN g.nodes :
        \E l \in Labels : MemGetEdge(g, y, x, l).err = "ok"}

NeighborsMatchEdges ==
    \A x \in DOMAIN graph.nodes :
        /\ MemGetNeighbors(graph, x, "out").ids = EdgeTargets(graph, x)
        /\ MemGetNeighbors(graph, x, "in").ids = EdgeSources(graph, x)

\* C14: after a successful delete_node(x), get_node(x) fails with
\* ErrNodeNotFound, get_edge fails with ErrEdgeNotFound for every edge that
\* had x as its source or destination, and every other node is stored
\* unchanged.
DeleteNodeRemoves ==
    [][ret'.op = "delete_node" /\ ret'.err = "ok"
        => LET x == ret'.arg
           IN /\ MemGetNode(graph', x).err = "ErrNodeNotFound"
              /\ \A k \in DOMAIN graph.edges :
                    LET e == graph.edges[k]
                    IN e.From = x \/ e.To = x
                         => MemGetEdge(graph', e.From, e.To, e.Label).err
                              = "ErrEdgeNotFound"
              /\ \A y \in DOMAIN graph.nodes \ {x} :
                    /\ y \in DOMAIN graph'.nodes
                    /\ graph'.nodes[y] = graph.nodes[y]]_vars

\* A node that had an edge to another node and an edge from it was deleted
DeletedNodeHadEdges ==
    /\ ret.op = "delete_node"
    /\ ret.err = "ok"
    /\ \E y \in DOMAIN graph.inEdges : \E k \in DOMAIN graph.inEdges[y] :
          graph.inEdges[y][k].From = ret.arg
    /\ DOMAIN graph.nodes # {}

\* C15: every edge in primary edge storage has its from node and its to
\* node in the node store.
NoDanglingEdge ==
    \A k \in DOMAIN graph.edges :
        /\ graph.edges[k].From \in DOMAIN graph.nodes
        /\ graph.edges[k].To \in DOMAIN graph.nodes

\* A node with an outgoing edge was deleted while another edge stays stored
EdgeSurvivesDeleteNode ==
    /\ ret.op = "delete_node"
    /\ ret.err = "ok"
    /\ DOMAIN graph.edges # {}
    /\ \E y \in DOMAIN graph.inEdges : \E k \in DOMAIN graph.inEdges[y] :
          graph.inEdges[y][k].From = ret.arg /\ k \notin DOMAIN graph.edges

\* C16: add_node of an id that is present fails with ErrNodeExists and
\* add_edge of a (from, to, label) that is present fails with ErrEdgeExists,
\* both leaving the graph as it was; add_edge between the same ordered pair
\* with another label succeeds and keeps every edge already stored.
DuplicateAddRejected ==
    [][/\ ret'.op = "add_node" /\ ret'.arg \in DOMAIN graph.nodes
            => ret'.err = "ErrNodeExists" /\ graph' = graph
       /\ ret'.op = "add_edge" /\ ret'.arg \in DOMAIN graph.edges
            => ret'.err = "ErrEdgeExists" /\ graph' = graph
       /\ ret'.op = "add_edge" =>
          \A k \in DOMAIN graph.edges, l \in Labels :
             /\ ret'.arg = makeEdgeKey(graph.edges[k].From, graph.edges[k].To, l)
             /\ l # graph.edges[k].Label
             /\ ret'.arg \notin DOMAIN graph.edges
             => /\ ret'.err = "ok"
                /\ DOMAIN graph'.edges = DOMAIN graph.edges \cup {ret'.arg}
                /\ \A j \in DOMAIN graph.edges :
                      graph'.edges[j] = graph.edges[j]]_vars

\* A node was added twice, and an ordered pair carries edges of two labels
DuplicateNodeRejected ==
    /\ ret.op = "add_node"
    /\ ret.err = "ErrNodeExists"
    /\ \E k \in DOMAIN graph.edges, j \in DOMAIN graph.edges :
          /\ graph.edges[k].From = graph.edges[j].From
          /\ graph.edges[k].To = graph.edges[j].To
          /\ graph.edges[k].Label # graph.edges[j].Label

\* C17: add_edge fails with a validation error when from, to or label is
\* empty, and with ErrNodeNotFound when its from node or its to node is not
\* in the graph; in these cases the graph stays as it was.
EdgeValidationErrors == {"ErrEmptyFromNode", "ErrEmptyToNode", "ErrEmptyEdgeLabel"}

AddEdgeChecksEndpoints ==
    [][ret'.op = "add_edge" =>
        \A f \in IdInputs, t \in IdInputs, l \in LabelInputs :
          ret'.arg = makeEdgeKey(f, t, l)
            => /\ (f = "" \/ t = "" \/ l = "")
                    => (ret'.err \in EdgeValidationErrors /\ graph' = graph)
               /\ (/\ f # "" /\ t # "" /\ l # ""
                   /\ (f \notin DOMAIN graph.nodes \/ t \notin DOMAIN graph.nodes))
                    => (ret'.err = "ErrNodeNotFound" /\ graph' = graph)]_vars

\* An edge from a node of the graph to a node that is not in it was refused
EdgeToAbsentNodeRefused ==
    /\ ret.op = "add_edge"
    /\ ret.err = "ErrNodeNotFound"
    /\ ret.arg = "a:b:l"
    /\ "a" \in DOMAIN graph.nodes
    /\ "b" \notin DOMAIN graph.nodes

NodesOfType(g, t) == {g.nodes[id] : id \in {i \in DOMAIN g.nodes : g.nodes[i].Type = t}}

TypeIndexExact ==
    /\ \A t \in (Types \ {""}) \cup {"unknown"} :
          /\ MemGetNodesByType(graph, t).err = "ok"
          /\ MemGetNodesByType(graph, t).nodes = NodesOfType(graph, t)
    /\ \A t \in DOMAIN graph.nodesByType : \A id \in DOMAIN graph.nodesByType[t] :
          /\ graph.nodesByType[t][id].ID = id
          /\ graph.nodesByType[t][id].Type # ""

\* The graph holds a typed node and an untyped node
TypedAndUntypedNodes ==
    /\ \E i \in DOMAIN graph.nodes, j \in DOMAIN graph.nodes :
          graph.nodes[i].Type = "t" /\ graph.nodes[j].Type = ""
    /\ MemGetNodesByType(graph, "t").nodes # {}

\* C20: what get_node returned, and the props mapping that was passed to
\* add_node, are the caller's own: setting an entry of their props does not
\* change the type or the props of any node the graph stores.
StoredNodes(g, m) ==
    [id \in DOMAIN g.nodes |->
        [Type |-> g.nodes[id].Type, Props |-> m[g.nodes[id].Props.kv]]]

ReturnedNodeIsSnapshot ==
    [][ret'.op = "set_prop" => StoredNodes(graph', maps') = StoredNodes(graph, maps)]_vars

\* C21: once the graph is closed, every later call (add_node, get_node,
\* delete_node, add_edge, get_edge, delete_edge, neighbors, nodes_by_type and
\* each kind of query, whatever the arguments) returns GraphClosed and
\* leaves the graph as it was.
ClosedCallsFail ==
    [][graph.closed /\ ret'.op # "close"
          => /\ graph' = graph
             /\ ret'.err # "running" => ErrorsIs(ret'.err, "ErrGraphClosed")]_vars

\* C22: read-after-write.  After a successful add_node(n), get_node(n.id)
\* gives n's id, type and props, and keeps giving them until a delete_node
\* of that id succeeds; after a successful add_edge(e), get_edge gives e
\* until a delete_edge of it or a delete_node of an endpoint succeeds; after
\* a successful delete the get fails with NotFound until the item is added
\* again.
SameNode(x, n) ==
    x.ID = n.ID /\ x.Type = n.Type /\ x.Props.kv = n.Props.kv

SameEdge(x, e) ==
    /\ x.From = e.From /\ x.To = e.To /\ x.Label = e.Label
    /\ x.Props.kv = e.Props.kv

Succeeded(r, op) == r.op = op /\ r.err = "ok"

NodeReadAfterWrite ==
    /\ Succeeded(ret', "add_node")
          => LET got == MemGetNode(graph', ret'.arg.ID)
             IN got.err = "ok" /\ SameNode(got.node, ret'.arg)
    /\ \A id \in NodeIds :
          LET before == MemGetNode(graph, id)
              after == MemGetNode(graph', id)
          IN /\ (Succeeded(ret', "delete_node") /\ ret'.arg = id)
                   => after.err = "ErrNodeNotFound"
             /\ (before.err = "ok"
                   /\ ~(Succeeded(ret', "delete_node") /\ ret'.arg = id))
                   => after = before
             /\ (before.err = "ErrNodeNotFound"
                   /\ ~(Succeeded(ret', "add_node") /\ ret'.arg.ID = id))
                   => after.err = "ErrNodeNotFound"

EdgeReadAfterWrite ==
    /\ Succeeded(ret', "add_edge")
          => LET e == ret'.arg
                 got == MemGetEdge(graph', e.From, e.To, e.Label)
             IN got.err = "ok" /\ SameEdge(got.edge, e)
    /\ \A f \in NodeIds, t \in NodeIds, l \in Labels :
          LET before == MemGetEdge(graph, f, t, l)
              after == MemGetEdge(graph', f, t, l)
              deleted == Succeeded(ret', "delete_edge")
                            /\ ret'.arg = makeEdgeKey(f, t, l)
              endpointDeleted == Succeeded(ret', "delete_node")
                                    /\ ret'.arg \in {f, t}
              added == Succeeded(ret', "add_edge")
                          /\ SameEdge(ret'.arg, Edge(f, t, l, ret'.arg.Props))
          IN /\ deleted => after.err = "ErrEdgeNotFound"
             /\ (before.err = "ok" /\ ~deleted /\ ~endpointDeleted)
                   => after = before
             /\ (before.err = "ErrEdgeNotFound" /\ ~added)
                   => after.err = "ErrEdgeNotFound"

ReadAfterWrite == [][NodeReadAfterWrite /\ EdgeReadAfterWrite]_vars

\* get_node has returned a node with props and get_edge-able edges are
\* stored after an earlier delete_node
ReadBackAfterReAdd ==
    /\ Succeeded(ret, "get_node")
    /\ qe.nodes # <<>> /\ DOMAIN qe.nodes[1].Props.kv # {}
    /\ DOMAIN graph.edges # {}
    /\ \E x \in DOMAIN graph.inEdges :
          \E k \in DOMAIN graph.inEdges[x] : k \notin DOMAIN graph.edges

\* C23: a neighbors query that gives a label returns only nodes that an
\* edge of the requested orientation carrying that label connects to the
\* queried node; a neighbor connected through edges of other labels only is
\* not returned.
LabelledNeighborIds(g, x, direction, label) ==
    LET stored == {g.edges[k] : k \in DOMAIN g.edges}
        outIds == {e.To : e \in {d \in stored : d.From = x /\ d.Label = label}}
        inIds == {e.From : e \in {d \in stored : d.To = x /\ d.Label = label}}
    IN IF direction = "out" THEN outIds
       ELSE IF direction = "in" THEN inIds
       ELSE outIds \cup inIds

NeighborsQueryAnswered ==
    ret.op = "query" /\ ret.arg.Type = "neighbors" /\ ret.err = "ok"

LabelFilterApplies ==
    (NeighborsQueryAnswered /\ ret.arg.Label # "")
        => \A i \in DOMAIN qe.nodes :
              qe.nodes[i].ID \in LabelledNeighborIds(graph, ret.arg.Node,
                                                     ret.arg.Direction,
                                                     ret.arg.Label)

\* C24: neighbors(x, "out") returns the destinations of the edges stored
\* with source x, neighbors(x, "in") the sources of the edges stored with
\* destination x, and neighbors(x, "both") the union of the two; each
\* neighbor is listed once, and for an x that is not in the graph the call
\* fails with NodeNotFound.
LabelledNeighborIdsAny(g, x, direction) ==
    UNION {LabelledNeighborIds(g, x, direction, l) : l \in Labels}

NeighborsByDirection ==
    ret.op = "neighbors" =>
        LET x == ret.arg.Node
            listed == {qe.nodes[i].ID : i \in DOMAIN qe.nodes}
        IN IF x \notin DOMAIN graph.nodes
           THEN ret.err = "ErrNodeNotFound"
           ELSE ret.arg.Direction \in {"out", "in", "both"} =>
                   /\ ret.err = "ok"
                   /\ listed = LabelledNeighborIdsAny(graph, x, ret.arg.Direction)
                   /\ Len(qe.nodes) = Cardinality(listed)

\* C25: a find query whose filters hold the key type returns exactly the
\* stored nodes of that type whose props agree with every other filter key
\* (node.props[k] = filters[k]), each once; a find query with filters but
\* without the key type fails and returns no node.
FindMatches(g, filters) ==
    {n \in {g.nodes[id] : id \in DOMAIN g.nodes} :
        /\ n.Type = filters["type"]
        /\ \A k \in DOMAIN filters \ {"type"} : PropAt(n.Props, k) = filters[k]}

SelfQueryOnePath ==
    (qe.pc = "done" /\ qe.from # "" /\ qe.from = qe.to
        /\ qe.from \in DOMAIN graph.nodes)
        => /\ ret.err = "ok"
           /\ qe.paths = << <<graph.nodes[qe.from]>> >>

\* The self-query was answered for a node with a cycle through it
SelfQueryOnCycle ==
    /\ qe.pc = "done" /\ qe.from = "a" /\ qe.to = "a" /\ ret.err = "ok"
    /\ HasEdge(graph, "a", "f") /\ HasEdge(graph, "f", "a")

\* C26: a query_paths tool call whose max_depth is a whole number outside
\* 1..10 (above 10, zero or negative) is answered with a tool error and
\* starts no path search; a call without max_depth searches to depth 4.
CurrentCall ==
    IF ParseJSONRPCRequest(handler.request) /\ handler.request.method = "tools/call"
    THEN CallToolRequest(handler.request.params)
    ELSE [ok |-> FALSE, Name |-> "", Arguments |-> EmptyMap]

Searching == qe.pc \in {"existsFrom", "existsTo", "self", "loop", "range", "build"}

PathsCallGiven ==
    /\ handler.initialized
    /\ CurrentCall.ok /\ CurrentCall.Name = "query_paths"
    /\ PathsArgsError(CurrentCall.Arguments) = "ok"

DepthOutsideRange(args) ==
    /\ "max_depth" \in DOMAIN args /\ args["max_depth"].kind = "number"
    /\ args["max_depth"].n % 10 = 0
    /\ IntOf(args["max_depth"].n) \notin 1..MaxDepthCeiling

DepthOutsideRangeRejected ==
    /\ (PathsCallGiven /\ DepthOutsideRange(CurrentCall.Arguments))
          => /\ ~Searching
             /\ handler.pc = "idle"
                   => /\ handler.response.Result.kind = "call"
                      /\ handler.response.Result.IsError
    /\ (PathsCallGiven /\ "max_depth" \notin DOMAIN CurrentCall.Arguments
           /\ Searching)
          => qe.maxDepth = DefaultMaxDepth

\* C28: as long as no initialize has succeeded, tools/list and tools/call
\* are answered with the JSON-RPC error -32600 and leave the graph alone and
\* unqueried; the initialized flag is set by a successful initialize only,
\* stays set, and from then on no request gets the "not initialized" error.
NotInitializedError(response) ==
    /\ ToJSON(response).hasError /\ ~ToJSON(response).hasResult
    /\ response.Error.Code = InvalidRequest

InitializeSucceeded(h) ==
    /\ h.request.method = "initialize"
    /\ ToJSON(h.response).hasResult /\ ~ToJSON(h.response).hasError

RequiresInitialize ==
    [][handler.pc = "idle" =>
        /\ (~handler.initialized /\ ParseJSONRPCRequest(handler'.request)
               /\ handler'.request.method \in {"tools/list", "tools/call"})
              => /\ NotInitializedError(handler'.response)
                 /\ handler'.pc = "idle"
                 /\ graph' = graph /\ qe' = qe
        /\ handler'.initialized # handler.initialized
              => handler'.initialized /\ InitializeSucceeded(handler')
        /\ InitializeSucceeded(handler') => handler'.initialized
        /\ (handler.initialized /\ handler'.pc = "idle")
              => ~NotInitializedError(handler'.response)]_vars

\* A tools/call was refused because the server is not initialized
RejectedBeforeInitialize ==
    /\ ~handler.initialized
    /\ ParseJSONRPCRequest(handler.request)
    /\ handler.request.method = "tools/call"
    /\ CurrentCall.ok /\ CurrentCall.Name = "add_node"
    /\ NotInitializedError(handler.response)

\* C29: an initialize request is accepted every time it is sent and gets
\* the same result (protocolVersion "2024-11-05", tools.listChanged false,
\* the server identity); sent again it changes neither the initialized flag
\* nor the graph.
InitializeResultOf(response) ==
    LET doc == ToJSON(response)
    IN /\ doc.hasResult /\ ~doc.hasError
       /\ doc.result.protocolVersion = "2024-11-05"
       /\ doc.result.capabilities.tools.hasListChanged
             => doc.result.capabilities.tools.listChanged = FALSE
       /\ ~doc.result.capabilities.tools.listChanged
       /\ doc.result.serverInfo = [name |-> "RelatixDB", version |-> "1.0.0"]

InitializeIdempotent ==
    [][(handler.pc = "idle" /\ ParseJSONRPCRequest(handler'.request)
          /\ handler'.request.method = "initialize"
          /\ InitializeRequestOk(handler'.request.params))
        => /\ InitializeResultOf(handler'.response)
           /\ handler'.initialized
           /\ graph' = graph]_vars

\* initialize was answered again on a server that holds nodes
InitializedAgain ==
    /\ handler.initialized
    /\ handler.request.method = "initialize"
    /\ handler.response.Result.kind = "initialize"
    /\ DOMAIN graph.nodes # {}

\* C30: on an initialized server a tools/call with a well-formed
\* {name, arguments} object is answered with a JSON-RPC result and no error
\* object: text blocks without isError when the tool succeeded, and one
\* text block starting with "Error: " with isError true when it failed
\* (unknown tool, argument violation, or the graph refusing the call).
WellFormedCall(line) ==
    /\ ParseJSONRPCRequest(line) /\ line.method = "tools/call"
    /\ line.params.kind = "object"
    /\ {"name", "arguments"} \subseteq DOMAIN line.params.o
    /\ line.params.o["name"].kind = "string"
    /\ line.params.o["arguments"].kind = "object"

IsText(content) == \A i \in DOMAIN content : content[i].Type = "text"

SuccessResult(doc) ==
    /\ ~doc.result.hasIsError
    /\ Len(doc.result.content) >= 1 /\ IsText(doc.result.content)
    /\ doc.result.content[1].Text[1] # "Error: "

FailureResult(doc) ==
    /\ doc.result.hasIsError /\ doc.result.isError
    /\ Len(doc.result.content) = 1 /\ IsText(doc.result.content)
    /\ doc.result.content[1].Text[1] = "Error: "

NonEmptyString(args, key) ==
    key \in DOMAIN args /\ args[key].kind = "string" /\ args[key].s # ""

HasTriple(g, args) ==
    \E k \in DOMAIN g.edges :
        /\ g.edges[k].From = args["from"].s /\ g.edges[k].To = args["to"].s
        /\ g.edges[k].Label = args["label"].s

\* The add and delete calls that the graph contract refuses
MutationFails(g, name, args) ==
    IF name \in {"add_node", "delete_node"}
    THEN \/ ~NonEmptyString(args, "id")
         \/ (name = "add_node") = (args["id"].s \in DOMAIN g.nodes)
    ELSE \/ \E key \in {"from", "to", "label"} : ~NonEmptyString(args, key)
         \/ name = "add_edge"
               /\ ~({args["from"].s, args["to"].s} \subseteq DOMAIN g.nodes)
         \/ (name = "add_edge") = HasTriple(g, args)

ToolCallAnswered ==
    LET doc == ToJSON(handler.response)
    IN (handler.pc = "idle" /\ handler.initialized
          /\ WellFormedCall(handler.request))
          => /\ doc.hasResult /\ ~doc.hasError
             /\ (SuccessResult(doc) \/ FailureResult(doc))

ToolCallOutcome ==
    LET call == CallToolRequest(handler'.request.params)
        doc == ToJSON(handler'.response)
    IN (handler.pc = "idle" /\ handler'.pc = "idle" /\ handler.initialized
          /\ WellFormedCall(handler'.request))
          => /\ call.Name \notin {ToolNames[i] : i \in DOMAIN ToolNames}
                   => FailureResult(doc)
             /\ call.Name \in {"add_node", "delete_node", "add_edge", "delete_edge"}
                   => IF MutationFails(graph, call.Name, call.Arguments)
                      THEN FailureResult(doc) /\ graph' = graph
                      ELSE SuccessResult(doc)

ToolErrorsAreResults == []ToolCallAnswered /\ [][ToolCallOutcome]_vars

\* A tool call that the graph refused was answered
FailedToolAnswered ==
    /\ handler.pc = "idle" /\ handler.initialized
    /\ WellFormedCall(handler.request)
    /\ FailureResult(ToJSON(handler.response))
    /\ handler.response.Result.Content[1].Text[2] = "ErrNodeExists"

\* C31: a tool call whose arguments break a rule of its adapter (a required
\* argument missing, empty or not a string; a direction other than in, out
\* and both; a max_depth outside 1..10; query_find without type and props)
\* leaves the graph, its node and edge sets and its indexes, as it was.
StringProps(args) ==
    IF "props" \in DOMAIN args /\ args["props"].kind = "object"
    THEN {k \in DOMAIN args["props"].o : args["props"].o[k].kind = "string"}
    ELSE {}

FailsValidation(name, args) ==
    \/ name \in {"add_node", "delete_node"} /\ ~NonEmptyString(args, "id")
    \/ /\ name \in {"add_edge", "delete_edge"}
       /\ \E key \in {"from", "to", "label"} : ~NonEmptyString(args, key)
    \/ /\ name = "query_neighbors"
       /\ \/ ~NonEmptyString(args, "node")
          \/ /\ NonEmptyString(args, "direction")
             /\ args["direction"].s \notin {"in", "out", "both"}
    \/ /\ name = "query_paths"
       /\ \/ \E key \in {"from", "to"} : ~NonEmptyString(args, key)
          \/ DepthOutsideRange(args)
    \/ /\ name = "query_find"
       /\ ~NonEmptyString(args, "type") /\ StringProps(args) = {}

InvalidCallKeepsGraph ==
    LET call == CallToolRequest(handler'.request.params)
    IN /\ (handler.pc = "idle" /\ WellFormedCall(handler'.request)
             /\ FailsValidation(call.Name, call.Arguments))
          => graph' = graph
       /\ (handler.pc = "query_paths"
             /\ FailsValidation(CurrentCall.Name, CurrentCall.Arguments))
          => graph' = graph

ValidationFailureKeepsGraph == [][InvalidCallKeepsGraph]_vars

\* An add_edge without a usable label was refused on a graph that holds both
\* of its endpoints
InvalidCallOnGraph ==
    /\ handler.pc = "idle" /\ handler.initialized
    /\ WellFormedCall(handler.request)
    /\ CurrentCall.Name = "add_edge"
    /\ FailsValidation(CurrentCall.Name, CurrentCall.Arguments)
    /\ FailureResult(ToJSON(handler.response))
    /\ {"a", "b"} \subseteq DOMAIN graph.nodes

\* C32: a string-typed argument that is given with a value that is no
\* string makes the call fail with a tool error, for required and optional
\* arguments alike, and so does a required string argument that is empty.
StringArguments(name) ==
    IF name \in {"add_node"} THEN {"id", "type"}
    ELSE IF name = "delete_node" THEN {"id"}
    ELSE IF name \in {"add_edge", "delete_edge"} THEN {"from", "to", "label"}
    ELSE IF name = "query_neighbors" THEN {"node", "direction", "label"}
    ELSE IF name = "query_paths" THEN {"from", "to"}
    ELSE IF name = "query_find" THEN {"type"}
    ELSE {}

RequiredArguments(name) ==
    IF name \in {"add_node", "delete_node"} THEN {"id"}
    ELSE IF name \in {"add_edge", "delete_edge"} THEN {"from", "to", "label"}
    ELSE IF name = "query_neighbors" THEN {"node"}
    ELSE IF name = "query_paths" THEN {"from", "to"}
    ELSE {}

BadStringArgument(name, args) ==
    \/ \E key \in StringArguments(name) \cap DOMAIN args :
          args[key].kind # "string"
    \/ \E key \in RequiredArguments(name) \cap DOMAIN args :
          args[key].kind = "string" /\ args[key].s = ""

BadStringRejected ==
    LET call == CallToolRequest(handler'.request.params)
    IN (handler.pc = "idle" /\ handler.initialized
          /\ WellFormedCall(handler'.request)
          /\ BadStringArgument(call.Name, call.Arguments))
          => /\ handler'.pc = "idle"
             /\ FailureResult(ToJSON(handler'.response))

NonStringArgumentsRejected == [][BadStringRejected]_vars

\* C33: every non-blank line that Run has taken from its input is answered
\* by exactly one response line, the responses are in the order of the
\* requests, and a blank line gets none; also in a run with cancellation.
\* (A run that ended because stdout could not be written is set aside.)
NonBlank(lines) == SelectSeq(lines, LAMBDA l : ~IsBlank(l))

Answers(doc, line) ==
    IF ParseJSONRPCRequest(line) THEN doc.hasId /\ doc.id = line.id
    ELSE ~doc.hasId /\ doc.hasError /\ doc.error.Code = ParseError

OneResponsePerLine ==
    run.err # "failed to write response"
       => /\ Len(run.output) <= Len(NonBlank(run.consumed))
          /\ \A i \in 1..Len(run.output) :
                Answers(run.output[i], NonBlank(run.consumed)[i])
          /\ run.pc \in {"scan", "returned"}
                => Len(run.output) = Len(NonBlank(run.consumed))

\* C34: once cancellation is signalled while Run is running, Run eventually
\* returns the cancellation error, whether or not another line or the end
\* of the input arrives.  (A run ended by a failing stdout is set aside.)
CancelReturns ==
    [](run.canceled /\ run.pc \notin {"new", "returned"}
         => <>(/\ run.pc = "returned"
               /\ run.err \in {"context canceled", "failed to write response"}))

\* C35: a line that is not JSON is answered with the error -32700 and no
\* request id; a parsed request with a method other than initialize,
\* tools/list and tools/call with -32601 and the id of the request; and, on
\* an initialized server, a tools/call whose params are not an object with
\* a string name and an object arguments with -32602.  None of the three
\* changes the graph or the initialized flag.
ErrorWith(doc, code) ==
    doc.hasError /\ ~doc.hasResult /\ doc.error.Code = code

DeclaredShape(params) ==
    /\ params.kind = "object"
    /\ "name" \in DOMAIN params.o => params.o["name"].kind = "string"
    /\ "arguments" \in DOMAIN params.o => params.o["arguments"].kind = "object"

ProtocolFailure ==
    LET line == handler'.request
        doc == ToJSON(handler'.response)
        frame == /\ handler'.pc = "idle"
                 /\ graph' = graph
                 /\ handler'.initialized = handler.initialized
    IN handler.pc = "idle"
       => /\ ~line.valid
             => ErrorWith(doc, ParseError) /\ ~doc.hasId /\ frame
          /\ (ParseJSONRPCRequest(line)
                /\ line.method \notin {"initialize", "tools/list", "tools/call"})
             => /\ ErrorWith(doc, MethodNotFound)
                /\ doc.hasId /\ doc.id = line.id
                /\ frame
          /\ (handler.initialized /\ ParseJSONRPCRequest(line)
                /\ line.method = "tools/call" /\ line.params.kind # "nil"
                /\ ~DeclaredShape(line.params))
             => /\ ErrorWith(doc, InvalidParams)
                /\ doc.hasId /\ doc.id = line.id
                /\ frame

Given(line, key) ==
    /\ key \in DOMAIN line.args.o
    /\ line.args.o[key].kind = "string" /\ line.args.o[key].s # ""

WellTyped(line) ==
    /\ line.args.kind = "object"
    /\ \A k \in DOMAIN line.args.o \ {"props", "filters", "max_depth"} :
          line.args.o[k].kind = "string"

QueryRulesBroken(line) ==
    LET type == StringField(line.args, "type")
    IN {m \in {"node is required for neighbors query"} :
            type = "neighbors" /\ ~Given(line, "node")}
       \cup {m \in {"invalid direction: must be 'in', 'out', or 'both'"} :
            /\ type = "neighbors" /\ Given(line, "direction")
            /\ line.args.o["direction"].s \notin {"in", "out", "both"}}
       \cup {m \in {"from node is required for paths query"} :
            type = "paths" /\ ~Given(line, "from")}
       \cup {m \in {"to node is required for paths query"} :
            type = "paths" /\ ~Given(line, "to")}
       \cup {m \in {"filters are required for find query"} :
            type = "find" /\ "filters" \notin DOMAIN line.args.o}
       \cup {m \in {"unknown query type: ", "query type is required"} :
            type \notin {"neighbors", "paths", "find"}}

RulesBroken(line) ==
    IF ~line.valid THEN {}
    ELSE IF line.cmd = "" THEN {"command field is required"}
    ELSE IF line.cmd \notin {"add_node", "add_edge", "delete_node",
                             "delete_edge", "query"}
    THEN {"unknown command: "}
    ELSE IF ~WellTyped(line) THEN {}
    ELSE IF line.cmd \in {"add_node", "delete_node"}
    THEN {m \in {"node ID is required"} : ~Given(line, "id")}
    ELSE IF line.cmd \in {"add_edge", "delete_edge"}
    THEN {m \in {"from node is required"} : ~Given(line, "from")}
         \cup {m \in {"to node is required"} : ~Given(line, "to")}
         \cup {m \in {"edge label is required"} : ~Given(line, "label")}
    ELSE QueryRulesBroken(line)

CommandRefused ==
    LET line == handler'.request
        doc == ResponseToJSON(handler'.response)
    IN (handler.pc = "idle" /\ RulesBroken(line) # {})
          => /\ handler'.pc = "idle"
             /\ ~doc.ok /\ ~doc.hasResult /\ doc.hasError
             /\ \E i \in DOMAIN doc.error : doc.error[i] \in RulesBroken(line)
             /\ graph' = graph

InvalidCommandsRefused == [][CommandRefused]_vars

\* A neighbors query with the direction "up" was refused on a graph that
\* holds an edge
InvalidDirectionRefused ==
    /\ handler.pc = "idle"
    /\ handler.request.valid /\ handler.request.cmd = "query"
    /\ Given(handler.request, "direction")
    /\ RulesBroken(handler.request) # {}
    /\ ~handler.response.OK
    /\ DOMAIN graph.edges # {}

\* C37: LoadGraph returns an error and no graph whenever a stored value fails
\* to deserialize, a stored edge names a node that is not in the store, or a
\* stored node or edge duplicates another; and a Load that got that error
\* leaves the PersistentGraph's memory graph as it was.
ReadableNodes(d) ==
    {k \in DOMAIN d.nodes : ~IsCorrupt(d.nodes[k])}
ReadableEdges(d) ==
    {k \in DOMAIN d.edges : ~IsCorrupt(d.edges[k])}
StoredIds(d) == {d.nodes[k].id : k \in ReadableNodes(d)}
BrokenStore(d) ==
    \/ \E k \in DOMAIN d.nodes : IsCorrupt(d.nodes[k])
    \/ \E k \in DOMAIN d.edges : IsCorrupt(d.edges[k])
    \/ \E k \in ReadableEdges(d) :
          \/ d.edges[k].from \notin StoredIds(d)
          \/ d.edges[k].to \notin StoredIds(d)
    \/ \E j, k \in ReadableNodes(d) : j # k /\ d.nodes[j].id = d.nodes[k].id
    \/ \E j, k \in ReadableEdges(d) :
          /\ j # k
          /\ d.edges[j].from = d.edges[k].from
          /\ d.edges[j].to = d.edges[k].to
          /\ d.edges[j].label = d.edges[k].label
LoadRefusesBrokenStore ==
    [][/\ (BrokenStore(db) =>
            (LoadGraph(db).err # "ok" /\ LoadGraph(db).g = NilGraph))
       /\ ((ret'.op = "load" /\ db' = db /\ BrokenStore(db)) =>
            ret'.err # "ok")
       /\ ((ret'.op = "load" /\ db' = db /\ ret'.err # "ok") =>
            graph' = graph)]_vars
LoadRefusedWithGraphInUse ==
    /\ ret.op = "load"
    /\ ret.err # "ok"
    /\ BrokenStore(db)
    /\ DOMAIN graph.nodes # {}

\* C38: when the memory graph rejects a PersistentGraph mutation (duplicate
\* node or edge, missing endpoint, empty id, node or edge not found), the
\* call returns without persisting anything: the store is as before the
\* call and no write transaction is open afterwards; and a call that does
\* reach its write transaction is one the memory graph accepted.
CoreErrors ==
    {"ErrEmptyNodeID", "ErrNodeExists", "ErrNodeNotFound", "ErrEdgeExists",
     "ErrEdgeNotFound", "ErrEmptyFromNode", "ErrEmptyToNode",
     "ErrEmptyEdgeLabel"}
TxStages == {"pg_del_in", "pg_tx"}
CoreAccepts(g, call) ==
    CASE call.op = "add_node" -> MemAddNode(g, call.node).err = "ok"
      [] call.op = "delete_node" -> MemGetNode(g, call.node.ID).err = "ok"
      [] call.op = "add_edge" -> MemAddEdge(g, call.edge).err = "ok"
      [] call.op = "delete_edge" ->
            MemGetEdge(g, call.edge.From, call.edge.To,
                       call.edge.Label).err = "ok"
      [] OTHER -> FALSE
RejectedPersistsNothing ==
    [][\A t \in Threads :
        /\ ((thr[t].pc = "pg_body" /\ thr'[t].pc = "idle"
                /\ ret'.err \in CoreErrors) =>
             (db' = db /\ \A u \in Threads : thr'[u].pc \notin TxStages))
        /\ ((thr[t].pc = "pg_body" /\ thr'[t].pc \in TxStages) =>
             CoreAccepts(graph, thr'[t]))]_vars
RejectedOnStoredGraph ==
    /\ thr[Writer].pc = "idle"
    /\ ret.op \in {"add_node", "delete_node", "add_edge", "delete_edge"}
    /\ ret.err \in CoreErrors
    /\ DOMAIN db.nodes # {}
    /\ DOMAIN db.edges # {}

\* C39: Operations.UpdateNode behaves as a replacement of the props in
\* place: after it succeeds the node has the id and type it had, its props
\* are the old ones overridden by the given ones, and every edge that was
\* incident to the node before the call is still in the graph.
UpdateNodeInPlace ==
    [][(ret'.op = "update_node" /\ ret'.err = "ok") =>
        LET id == ret'.arg
        IN /\ id \in DOMAIN graph.nodes
           /\ id \in DOMAIN graph'.nodes
           /\ graph'.nodes[id].ID = graph.nodes[id].ID
           /\ graph'.nodes[id].Type = graph.nodes[id].Type
           /\ \/ graph' = graph
              \/ graph'.nodes[id].Props.kv =
                    Override(graph.nodes[id].Props.kv, ret'.props)
           /\ \A k \in IncidentEdges(graph, id) :
                 /\ k \in DOMAIN graph'.edges
                 /\ graph'.edges[k] = graph.edges[k]]_vars

\* C40: with auto-save enabled, once Close has closed the backend the
\* auto-save loop starts no further Save and makes no further call on the
\* backend, and the loop eventually terminates.
LoopRunning == saver.pc \in {"select", "save_rlock", "save_body"}
CloseStopsAutoSave ==
    /\ [][(saver.autoSave /\ saver.backend = "closed") =>
            /\ ~(saver.pc = "select" /\ saver'.pc = "save_rlock")
            /\ ~(saver.pc = "save_body" /\ saver'.pc = "select")]_vars
    /\ ((saver.autoSave /\ saver.backend = "closed") ~> ~LoopRunning)

====
